---- MODULE Spec2Model ----
(***************************************************************************)
(* Cash-flow forecast engine (src/forecast_engine.py) behind the /forecast *)
(* endpoint (src/app.py).                                                  *)
(*                                                                         *)
(* Text is modelled at character level: a string is a sequence of          *)
(* one-character strings, so that lower-casing, filler-token removal,      *)
(* punctuation stripping, tokenisation and substring tests are computed    *)
(* the way the Python code computes them.  Amounts are exact rationals in  *)
(* dollars.                                                                *)
(* Dates are day numbers, day 1 = 2025-01-01; NoDate stands for a missing  *)
(* date (None / NaT).                                                      *)
(***************************************************************************)
EXTENDS Integers, Sequences, FiniteSets, TLC

(***************************************************************************)
(* Characters and strings                                                  *)
(***************************************************************************)
UpperToLower ==
    [A |-> "a", B |-> "b", C |-> "c", D |-> "d", E |-> "e", F |-> "f",
     G |-> "g", H |-> "h", I |-> "i", J |-> "j", K |-> "k", L |-> "l",
     M |-> "m", N |-> "n", O |-> "o", P |-> "p", Q |-> "q", R |-> "r",
     S |-> "s", T |-> "t", U |-> "u", V |-> "v", W |-> "w", X |-> "x",
     Y |-> "y", Z |-> "z"]

LowerLetters ==
    {"a", "b", "c", "d", "e", "f", "g", "h", "i", "j", "k", "l", "m",
     "n", "o", "p", "q", "r", "s", "t", "u", "v", "w", "x", "y", "z"}

Digits == {"0", "1", "2", "3", "4", "5", "6", "7", "8", "9"}

IsSpace(c) == c = " "

IsAlnum(c) == c \in LowerLetters \/ c \in Digits \/ c \in DOMAIN UpperToLower

LowerChar(c) == IF c \in DOMAIN UpperToLower THEN UpperToLower[c] ELSE c

\* str.lower()
Lower(s) == [i \in 1..Len(s) |-> LowerChar(s[i])]

\* s[i:] (1-based)
DropFirst(s, n) == SubSeq(s, n + 1, Len(s))

StartsWith(s, t) == Len(t) <= Len(s) /\ SubSeq(s, 1, Len(t)) = t

\* `t in s` for strings
Contains(s, t) == \E i \in 0..(Len(s) - Len(t)) : SubSeq(s, i + 1, i + Len(t)) = t

RECURSIVE ReplaceAll(_, _)
\* str.replace(t, ""): leftmost, non-overlapping occurrences are removed
ReplaceAll(s, t) ==
    IF s = <<>> THEN <<>>
    ELSE IF StartsWith(s, t) THEN ReplaceAll(DropFirst(s, Len(t)), t)
    ELSE <<Head(s)>> \o ReplaceAll(Tail(s), t)

RECURSIVE SplitFrom(_, _)
\* str.split(): the maximal runs of non-space characters; cur is the run
\* being read
SplitFrom(s, cur) ==
    IF s = <<>> THEN (IF cur = <<>> THEN <<>> ELSE <<cur>>)
    ELSE IF IsSpace(Head(s))
         THEN (IF cur = <<>> THEN <<>> ELSE <<cur>>) \o SplitFrom(Tail(s), <<>>)
         ELSE SplitFrom(Tail(s), Append(cur, Head(s)))

Split(s) == SplitFrom(s, <<>>)

RECURSIVE Join(_)
\* " ".join(tokens)
Join(tokens) ==
    IF tokens = <<>> THEN <<>>
    ELSE IF Len(tokens) = 1 THEN tokens[1]
    ELSE tokens[1] \o <<" ">> \o Join(Tail(tokens))

\* str.strip(), and also re.sub(r'\s+', ' ', s).strip(): the model's only
\* whitespace character is the blank
CollapseSpaces(s) == Join(Split(s))

RECURSIVE Strip(_)
Strip(s) ==
    IF s = <<>> THEN <<>>
    ELSE IF IsSpace(Head(s)) THEN Strip(Tail(s))
    ELSE IF IsSpace(s[Len(s)]) THEN Strip(SubSeq(s, 1, Len(s) - 1))
    ELSE s

\* re.sub(r'[^a-z0-9\s]', ' ', s): anything but a lower-case letter, a digit
\* or whitespace becomes a blank
BlankNonLowerAlnum(s) ==
    [i \in 1..Len(s) |->
        IF s[i] \in LowerLetters \/ s[i] \in Digits \/ IsSpace(s[i])
        THEN s[i] ELSE " "]

\* ch if ch.isalnum() or ch.isspace() else ' '
BlankNonAlnum(s) ==
    [i \in 1..Len(s) |-> IF IsAlnum(s[i]) \/ IsSpace(s[i]) THEN s[i] ELSE " "]

(***************************************************************************)
(* The descriptions that occur in the requests.  The text functions below *)
(* are tabulated once over them; any other text is computed on the spot.   *)
(***************************************************************************)
S_Netflix == <<"N","e","t","f","l","i","x">>

S_NETFLIX_PAYMENT == <<"N","E","T","F","L","I","X"," ","P","A","Y","M","E","N","T">>

S_Acme == <<"A","c","m","e">>

S_Online_Transfer == <<"O","n","l","i","n","e"," ","T","r","a","n","s","f","e","r"," ","t","o"," ","S","a","v","i","n","g","s">>

S_Payroll == <<"P","a","y","r","o","l","l"," ","D","i","r","e","c","t"," ","D","e","p","o","s","i","t">>

S_Rent == <<"R","e","n","t">>

S_Grocery == <<"G","r","o","c","e","r","y">>

Descriptions ==
    {S_Netflix, S_NETFLIX_PAYMENT, S_Acme, S_Online_Transfer, S_Payroll, S_Rent,
     S_Grocery}

(***************************************************************************)
(* Normalizer: description canonicalisation and internal-transfer detection *)
(***************************************************************************)
filler_tokens ==
    << <<"p","a","y","m","e","n","t">>,
       <<"p","u","r","c","h","a","s","e">>,
       <<"t","r","a","n","s","a","c","t","i","o","n">>,
       <<"p","o","s">>,
       <<"d","e","b","i","t">>,
       <<"c","r","e","d","i","t">> >>

RECURSIVE RemoveFillers(_, _)
\* for token in [...]: desc = desc.replace(token, "")
RemoveFillers(s, tokens) ==
    IF tokens = <<>> THEN s
    ELSE RemoveFillers(ReplaceAll(s, Head(tokens)), Tail(tokens))

\* _normalize_description
NormalizeDescription(description) ==
    IF description = <<>> THEN <<>>
    ELSE Join(Split(BlankNonAlnum(RemoveFillers(Lower(description), filler_tokens))))

normalized_table == [d \in Descriptions |-> NormalizeDescription(d)]

\* self._normalize_description(description), looked up when tabulated
Normalized(description) ==
    IF description \in Descriptions THEN normalized_table[description]
    ELSE NormalizeDescription(description)

\* each regex is \bw1\s+...\s+wn\b, kept as its word sequence <<w1, ..., wn>>
transfer_regexes ==
    << << <<"t","r","a","n","s","f","e","r">> >>,
       << <<"x","f","e","r">> >>,
       << <<"a","c","h">> >>,
       << <<"a","u","t","o","p","a","y">> >>,
       << <<"o","n","l","i","n","e">>, <<"t","r","a","n","s","f","e","r">> >>,
       << <<"o","n","l","i","n","e">>, <<"p","a","y","m","e","n","t">> >>,
       << <<"d","e","p","o","s","i","t">>, <<"t","o">> >>,
       << <<"d","e","p","o","s","i","t">>, <<"f","r","o","m">> >>,
       << <<"p","a","y","m","e","n","t">>, <<"t","o">> >>,
       << <<"p","a","y","m","e","n","t">>, <<"f","r","o","m">> >> >>

transfer_whitelist ==
    { <<"p","a","y","r","o","l","l">>,
      <<"p","a","y","c","h","e","c","k">>,
      <<"s","a","l","a","r","y">>,
      <<"b","o","n","u","s">>,
      <<"r","e","i","m","b","u","r","s","e","m","e","n","t">>,
      <<"r","e","f","u","n","d">>,
      <<"i","n","t","e","r","e","s","t">>,
      <<"d","i","v","i","d","e","n","d">>,
      <<"r","o","y","a","l","t","y">>,
      <<"d","i","r","e","c","t"," ","d","e","p","o","s","i","t">>,
      <<"m","o","b","i","l","e"," ","d","e","p","o","s","i","t">>,
      <<"r","e","m","o","t","e"," ","d","e","p","o","s","i","t">> }

transfer_blacklist ==
    { <<"a","c","c","o","u","n","t"," ","t","r","a","n","s","f","e","r">>,
      <<"i","n","t","e","r","n","a","l"," ","t","r","a","n","s","f","e","r">>,
      <<"p","a","y","m","e","n","t"," ","t","h","a","n","k"," ","y","o","u">>,
      <<"l","o","a","n"," ","p","a","y","m","e","n","t">>,
      <<"m","a","n","u","a","l"," ","d","b">>,
      <<"b","a","n","k"," ","t","o"," ","b","a","n","k">> }

\* re.search(r'\bw1\s+w2\b', normalized) on a string of lower-case letters,
\* digits and single blanks: the words occur as consecutive whole tokens
RegexSearch(words, normalized) ==
    LET toks == Split(normalized)
    IN \E i \in 0..(Len(toks) - Len(words)) :
           SubSeq(toks, i + 1, i + Len(words)) = words

\* _is_internal_transfer
IsInternalTransfer(description) ==
    IF description = <<>> THEN FALSE
    ELSE LET normalized == CollapseSpaces(BlankNonLowerAlnum(Lower(description)))
         IN IF \E phrase \in transfer_blacklist : Contains(normalized, phrase)
            THEN TRUE
            ELSE /\ \E k \in 1..Len(transfer_regexes) :
                        RegexSearch(transfer_regexes[k], normalized)
                 /\ ~ \E phrase \in transfer_whitelist : Contains(normalized, phrase)

transfer_table == [d \in Descriptions |-> IsInternalTransfer(d)]

\* self._is_internal_transfer(description), looked up when tabulated
IsTransfer(description) ==
    IF description \in Descriptions THEN transfer_table[description]
    ELSE IsInternalTransfer(description)

(***************************************************************************)
(* Amounts.  The engine computes on floats; the model computes the same    *)
(* expressions on exact rationals [n, d] in dollars (d > 0, lowest terms). *)
(***************************************************************************)
Abs(i) == IF i < 0 THEN -i ELSE i

Sign(i) == IF i < 0 THEN -1 ELSE IF i > 0 THEN 1 ELSE 0

RECURSIVE GCD(_, _)
GCD(a, b) == IF b = 0 THEN a ELSE GCD(b, a % b)

R(n, d) ==
    LET g == GCD(Abs(n), Abs(d))
        s == IF d < 0 THEN -1 ELSE 1
    IN [n |-> s * (n \div g), d |-> s * (d \div g)]

RInt(i) == [n |-> i, d |-> 1]

RZero == RInt(0)

RNeg(x) == [n |-> -x.n, d |-> x.d]

RAbs(x) == [n |-> Abs(x.n), d |-> x.d]

RSign(x) == Sign(x.n)

RAdd(x, y) ==
    LET g == GCD(x.d, y.d)
    IN R(x.n * (y.d \div g) + y.n * (x.d \div g), (x.d \div g) * y.d)

RSub(x, y) == RAdd(x, RNeg(y))

RMul(x, y) ==
    LET a == R(x.n, y.d)
        b == R(y.n, x.d)
    IN [n |-> a.n * b.n, d |-> a.d * b.d]

\* x / y for y # 0
RDiv(x, y) == RMul(x, R(y.d, y.n))

RECURSIVE CmpFrac(_, _, _, _)
\* the sign of a/b - c/d for b, d > 0, by integer parts and then the
\* remainders, so that no product is formed
CmpFrac(a, b, c, d) ==
    LET qa == a \div b
        qc == c \div d
        ra == a % b
        rc == c % d
    IN IF qa # qc THEN Sign(qa - qc)
       ELSE IF ra = 0 \/ rc = 0 THEN Sign(ra - rc)
       ELSE CmpFrac(d, rc, b, ra)

RCmp(x, y) == CmpFrac(x.n, x.d, y.n, y.d)

RLt(x, y) == RCmp(x, y) < 0

RLe(x, y) == RCmp(x, y) <= 0

RMax(x, y) == IF RLt(x, y) THEN y ELSE x

RMin(x, y) == IF RLt(y, x) THEN y ELSE x

\* floor(x)
RFloor(x) == x.n \div x.d

\* math.ceil(x)
RCeil(x) == -((-x.n) \div x.d)

\* round(x, 2): to the nearest cent, a tie going to the even cent
Round2(x) ==
    LET c == RMul(x, RInt(100))
        f == RFloor(c)
        twice == RSub(RMul(c, RInt(2)), RInt(2 * f))
    IN IF twice.n < twice.d THEN R(f, 100)
       ELSE IF twice.n > twice.d THEN R(f + 1, 100)
       ELSE IF f % 2 = 0 THEN R(f, 100) ELSE R(f + 1, 100)

\* the 1e-6 that guards the engine's sign and zero tests
Epsilon == [n |-> 1, d |-> 1000000]

RECURSIVE RSumRange(_, _, _)
\* the sum of xs[lo..hi], by halves
RSumRange(xs, lo, hi) ==
    IF lo > hi THEN RZero
    ELSE IF lo = hi THEN xs[lo]
    ELSE RAdd(RSumRange(xs, lo, (lo + hi) \div 2),
              RSumRange(xs, (lo + hi) \div 2 + 1, hi))

RSum(xs) == RSumRange(xs, 1, Len(xs))

(***************************************************************************)
(* Categorizer.  Each keyword family lists, in source order, the family's  *)
(* first keyword and every keyword of the source that matches one of the   *)
(* modelled descriptions; the keywords left out match none of them.        *)
(***************************************************************************)
Categories ==
    {"rent", "mortgage", "utilities", "internet", "phone", "insurance",
     "car_payment", "subscriptions", "credit_card_fee", "bank_fee",
     "groceries", "gas", "dining", "entertainment", "shopping", "healthcare",
     "gifts", "travel", "income", "other"}

\* a call that passes no amount (amount=None): amount_value stays None, so
\* the call is neither is_income_amount nor is_expense_amount, as for zero
NoAmount == RZero

income_keywords ==
    << <<"p","a","y","c","h","e","c","k">>,
       <<"d","e","p","o","s","i","t">>,
       <<"d","i","r","e","c","t"," ","d","e","p","o","s","i","t">>,
       <<"p","a","y","r","o","l","l">> >>

rent_keywords ==
    << <<"r","e","n","t">> >>

mortgage_keywords ==
    << <<"m","o","r","t","g","a","g","e">>,
       <<"l","o","a","n"," ","p","a","y","m","e","n","t">> >>

utilities_keywords ==
    << <<"e","l","e","c","t","r","i","c">>,
       <<"g","a","s"," ","b","i","l","l">> >>

internet_keywords ==
    << <<"i","n","t","e","r","n","e","t">> >>

phone_keywords ==
    << <<"p","h","o","n","e">> >>

insurance_keywords ==
    << <<"i","n","s","u","r","a","n","c","e">> >>

car_payment_keywords ==
    << <<"c","a","r"," ","p","a","y","m","e","n","t">> >>

subscription_keywords ==
    << <<"n","e","t","f","l","i","x">> >>

gas_keywords ==
    << <<"g","a","s"," ","s","t","a","t","i","o","n">> >>

grocery_keywords ==
    << <<"g","r","o","c","e","r","y">> >>

dining_keywords ==
    << <<"r","e","s","t","a","u","r","a","n","t">>,
       <<"c","o","f","f","e","e">> >>

entertainment_keywords ==
    << <<"m","o","v","i","e">> >>

gift_keywords ==
    << <<"g","i","f","t">> >>

travel_keywords ==
    << <<"t","r","a","v","e","l">> >>

shopping_keywords ==
    << <<"a","m","a","z","o","n">> >>

bank_fee_keywords ==
    << <<"f","e","e">>,
       <<"n","s","f">> >>

healthcare_keywords ==
    << <<"d","o","c","t","o","r">> >>

S_security_deposit == <<"s","e","c","u","r","i","t","y"," ","d","e","p","o","s","i","t">>
S_payment_to == <<"p","a","y","m","e","n","t"," ","t","o">>
S_transfer_to == <<"t","r","a","n","s","f","e","r"," ","t","o">>
S_gas_suffix == <<" ","g","a","s">>
S_fuel_infix == <<" ","f","u","e","l"," ">>
S_credit == <<"c","r","e","d","i","t">>
S_card == <<"c","a","r","d">>

EndsWith(s, t) == Len(t) <= Len(s) /\ SubSeq(s, Len(s) - Len(t) + 1, Len(s)) = t

\* contains_any: a one-word keyword matches when it is a substring of some
\* token of the cleaned description, a longer keyword when it is a substring
\* of the cleaned description
ContainsAny(keywords, desc_clean) ==
    LET desc_tokens == Split(desc_clean)
    IN \E k \in 1..Len(keywords) :
          LET kw_clean == Strip(BlankNonLowerAlnum(Lower(keywords[k])))
              kw_tokens == Split(kw_clean)
          IN /\ kw_clean # <<>>
             /\ IF Len(kw_tokens) = 1
                THEN \E j \in 1..Len(desc_tokens) :
                         Contains(desc_tokens[j], kw_tokens[1])
                ELSE Contains(desc_clean, kw_clean)

\* the tuple of the `if is_income_amount and not contains_any(...)` test
payee_keywords == <<S_payment_to, S_transfer_to>>

\* every keyword tuple contains_any is called with
KeywordFamilies ==
    {income_keywords, payee_keywords, rent_keywords, mortgage_keywords,
     utilities_keywords, internet_keywords, phone_keywords, insurance_keywords,
     car_payment_keywords, subscription_keywords, gas_keywords, grocery_keywords,
     dining_keywords, entertainment_keywords, gift_keywords, travel_keywords,
     shopping_keywords, bank_fee_keywords, healthcare_keywords}

\* the keyword families of _categorize_transaction in their fixed order,
\* with the amount-sign overrides; Has[keywords] is contains_any(keywords)
KeywordDecision(desc_lower, Has, amount) ==
    LET is_income_amount == RSign(amount) > 0
        is_expense_amount == RSign(amount) < 0
    IN IF /\ Has[income_keywords]
          /\ ~ Contains(desc_lower, S_security_deposit)
          /\ ~ is_expense_amount
       THEN "income"
       ELSE IF is_income_amount /\ ~ Has[payee_keywords]
       THEN "income"
       ELSE IF Has[rent_keywords] THEN "rent"
       ELSE IF Has[mortgage_keywords] THEN "mortgage"
       ELSE IF Has[utilities_keywords] THEN "utilities"
       ELSE IF Has[internet_keywords] THEN "internet"
       ELSE IF Has[phone_keywords] THEN "phone"
       ELSE IF Has[insurance_keywords] THEN "insurance"
       ELSE IF Has[car_payment_keywords] THEN "car_payment"
       ELSE IF Has[subscription_keywords] THEN "subscriptions"
       ELSE IF \/ Has[gas_keywords]
               \/ EndsWith(desc_lower, S_gas_suffix)
               \/ Contains(desc_lower, S_fuel_infix)
       THEN "gas"
       ELSE IF Has[grocery_keywords] THEN "groceries"
       ELSE IF Has[dining_keywords] THEN "dining"
       ELSE IF Has[entertainment_keywords] THEN "entertainment"
       ELSE IF Has[gift_keywords] THEN "gifts"
       ELSE IF Has[travel_keywords] THEN "travel"
       ELSE IF Has[shopping_keywords] THEN "shopping"
       ELSE IF Has[bank_fee_keywords]
       THEN (IF is_income_amount THEN "income"
             ELSE IF Contains(desc_lower, S_credit) \/ Contains(desc_lower, S_card)
             THEN "credit_card_fee"
             ELSE "bank_fee")
       ELSE IF Has[healthcare_keywords] THEN "healthcare"
       ELSE IF is_income_amount THEN "income"
       ELSE "other"

\* the keyword cascade run without the amount, as for amount=None
KeywordCategoryWithoutAmount(desc, amount) ==
    KeywordDecision(Lower(desc),
                    [keywords \in KeywordFamilies |->
                        ContainsAny(keywords,
                                    CollapseSpaces(BlankNonLowerAlnum(Lower(desc))))],
                    NoAmount)

\* _categorize_transaction below the alias-cache lookup: contains_any
\* works on the cleaned lower-cased description
KeywordCategory(desc, amount) ==
    KeywordDecision(Lower(desc),
                    [keywords \in KeywordFamilies |->
                        ContainsAny(keywords,
                                    CollapseSpaces(BlankNonLowerAlnum(Lower(desc))))],
                    amount)

\* the keyword category depends on the amount through its sign only
keyword_table ==
    [d \in Descriptions |-> [sign \in {-1, 0, 1} |-> KeywordCategory(d, RInt(sign))]]

\* the keyword families of _categorize_transaction, looked up when tabulated
KeywordCategoryOf(desc, amount) ==
    IF desc \in Descriptions THEN keyword_table[desc][RSign(amount)]
    ELSE KeywordCategory(desc, amount)

\* the alias-cache read of _categorize_transaction: a cached category is
\* returned unless the amount is positive and the cached category is not
\* income
CategorizeCacheHit(cache, normalized, amount) ==
    /\ normalized \in DOMAIN cache
    /\ ~ (RSign(amount) > 0 /\ cache[normalized] # "income")

\* _categorize_transaction(description, amount) against the alias cache
CategorizeTransaction(cache, description, amount) ==
    LET desc == Strip(description)
        normalized == Normalized(desc)
    IN IF desc = <<>> THEN "other"
       ELSE IF CategorizeCacheHit(cache, normalized, amount)
       THEN cache[normalized]
       ELSE KeywordCategoryOf(desc, amount)

(***************************************************************************)
(* Alias cache and _sanitize_transactions                                  *)
(***************************************************************************)
\* a transaction without a usable date (None / NaT); real days are >= 1
NoDate == 0

EmptyCache == [k \in {} |-> "other"]

\* self._alias_cache[normalized_desc] = category
CachePut(cache, key, category) ==
    [k \in (DOMAIN cache) \cup {key} |-> IF k = key THEN category ELSE cache[k]]

\* a category decided by _categorize_transaction for every entry, whatever
\* the cache holds for its normalized description
SanitizeCategoryAfresh(cache, description, normalized_desc, amount) ==
    CategorizeTransaction(cache, description, amount)

\* the category _sanitize_transactions gives an entry: the cached category
\* of its normalized description when there is one, whatever the amount,
\* and otherwise _categorize_transaction
SanitizeCategory(cache, description, normalized_desc, amount) ==
    IF normalized_desc # <<>> /\ normalized_desc \in DOMAIN cache
    THEN cache[normalized_desc]
    ELSE CategorizeTransaction(cache, description, amount)

\* the alias-cache write of _sanitize_transactions
SanitizeCacheWrite(cache, normalized_desc, category) ==
    IF normalized_desc # <<>> /\ category # "other"
    THEN CachePut(cache, normalized_desc, category)
    ELSE cache

\* the entry is copied with its description but the category it came with
\* is left in place
NormalizedEntryKeepingCategory(entry, description, category) ==
    [entry EXCEPT !.description = description]

\* normalized_entry: a copy of the entry with the stripped description and
\* the category just decided in place of whatever the entry carried
NormalizedEntry(entry, description, category) ==
    [entry EXCEPT !.description = description, !.category = category]

RECURSIVE SanitizeFrom(_, _, _, _)
\* one pass of the loop body of _sanitize_transactions for the entry at the
\* head of txs, given its stripped description, the normalized description,
\* the dedup key and the category the entry gets when it is kept
SanitizeEntry(txs, seen, cleaned, cache, description, normalized_desc, key, category) ==
    IF IsTransfer(description) \/ key \in seen
    THEN SanitizeFrom(Tail(txs), seen, cleaned, cache)
    ELSE SanitizeFrom(Tail(txs), seen \cup {key},
                      Append(cleaned, NormalizedEntry(Head(txs), description, category)),
                      SanitizeCacheWrite(cache, normalized_desc, category))

\* the loop of _sanitize_transactions over the remaining entries, with the
\* dedup keys seen, the entries kept and the alias cache so far
SanitizeFrom(txs, seen, cleaned, cache) ==
    IF txs = <<>> THEN [cleaned |-> cleaned, cache |-> cache]
    ELSE LET entry == Head(txs)
             description == Strip(entry.description)
             normalized_desc == Normalized(description)
             desc_key == IF normalized_desc # <<>> THEN normalized_desc
                         ELSE Lower(description)
         IN SanitizeEntry(txs, seen, cleaned, cache, description, normalized_desc,
                          <<entry.date, Round2(entry.amount), desc_key>>,
                          SanitizeCategory(cache, description, normalized_desc,
                                           entry.amount))

\* _sanitize_transactions(transactions): the cleaned ledger and the alias
\* cache it leaves behind
SanitizeTransactions(cache, txs) == SanitizeFrom(txs, {}, <<>>, cache)

(***************************************************************************)
(* Calendar.  Day 1 is Wednesday 2025-01-01.                               *)
(***************************************************************************)
BaseYear == 2025

IsLeap(y) == (y % 4 = 0 /\ y % 100 # 0) \/ y % 400 = 0

\* calendar.monthrange(year, month)[1]
DaysInMonth(y, m) ==
    IF m = 2 THEN (IF IsLeap(y) THEN 29 ELSE 28)
    ELSE IF m \in {4, 6, 9, 11} THEN 30 ELSE 31

RECURSIVE YMDFrom(_, _, _)
YMDFrom(y, m, n) ==
    IF n <= DaysInMonth(y, m) THEN [year |-> y, month |-> m, day |-> n]
    ELSE IF m = 12 THEN YMDFrom(y + 1, 1, n - DaysInMonth(y, m))
    ELSE YMDFrom(y, m + 1, n - DaysInMonth(y, m))

RECURSIVE YMDBack(_, _, _)
\* the date n days (n <= 0) before the last day of month m of year y
YMDBack(y, m, n) ==
    IF n + DaysInMonth(y, m) >= 1 THEN [year |-> y, month |-> m, day |-> n + DaysInMonth(y, m)]
    ELSE IF m = 1 THEN YMDBack(y - 1, 12, n + DaysInMonth(y, m))
    ELSE YMDBack(y, m - 1, n + DaysInMonth(y, m))

\* year, month and day of month of a day number; day 1 is 2025-01-01 and
\* day -30 is 2024-12-01
YMD(n) == IF n >= 1 THEN YMDFrom(BaseYear, 1, n) ELSE YMDBack(BaseYear - 1, 12, n)

RECURSIVE DaysBefore(_, _)
\* days from 2025-01-01 to the first day of month m of year y
DaysBefore(y, m) ==
    IF y = BaseYear /\ m = 1 THEN 0
    ELSE IF y < BaseYear
    THEN (IF m = 12 THEN DaysBefore(y + 1, 1) - DaysInMonth(y, 12)
          ELSE DaysBefore(y, m + 1) - DaysInMonth(y, m))
    ELSE IF m = 1 THEN DaysBefore(y - 1, 12) + DaysInMonth(y - 1, 12)
    ELSE DaysBefore(y, m - 1) + DaysInMonth(y, m - 1)

DayNumber(y, m, d) == DaysBefore(y, m) + d

\* Timestamp.weekday(): Monday = 0
Weekday(n) == (n + 1) % 7

\* months since year 0, as in year * 12 + (month - 1)
MonthIndex(n) == YMD(n).year * 12 + (YMD(n).month - 1)

Min(a, b) == IF a < b THEN a ELSE b

Max(a, b) == IF a > b THEN a ELSE b

\* _advance_month_same_day(reference_ts, months, target_day)
AdvanceMonthSameDay(reference, months, target_day) ==
    LET total_months == MonthIndex(reference) + months
        year == total_months \div 12
        month == (total_months % 12) + 1
        day == Min(target_day, DaysInMonth(year, month))
    IN DayNumber(year, month, day)

\* ts + DateOffset(months=k): same day of month, clamped to the month's end
AddMonths(n, k) == AdvanceMonthSameDay(n, k, YMD(n).day)

(***************************************************************************)
(* Sequence helpers standing for the pandas / numpy primitives             *)
(***************************************************************************)
RECURSIVE InsertByKey(_, _, _)
\* insert index i into the index list idx (ordered by keys) after every
\* index whose key is not larger: a stable insertion
InsertByKey(idx, i, keys) ==
    IF idx = <<>> THEN <<i>>
    ELSE IF keys[Head(idx)] <= keys[i]
         THEN <<Head(idx)>> \o InsertByKey(Tail(idx), i, keys)
         ELSE <<i>> \o idx

RECURSIVE SortedIndices(_, _)
SortedIndices(keys, n) ==
    IF n = 0 THEN <<>> ELSE InsertByKey(SortedIndices(keys, n - 1), n, keys)

\* sort_values on an integer key; rows with equal keys keep their order, as
\* numpy's sort does for the handful of rows of a modelled frame
SortByKey(rows, keys) ==
    LET idx == SortedIndices(keys, Len(rows))
    IN [i \in 1..Len(rows) |-> rows[idx[i]]]

\* a missing date sorts after every date (na_position='last')
LastKey == 1000000

DateKey(date) == IF date = NoDate THEN LastKey ELSE date

\* df.sort_values('date')
SortByDate(rows) == SortByKey(rows, [i \in 1..Len(rows) |-> DateKey(rows[i].date)])

RECURSIVE RInsert(_, _)
RInsert(sorted, x) ==
    IF sorted = <<>> THEN <<x>>
    ELSE IF RLe(Head(sorted), x) THEN <<Head(sorted)>> \o RInsert(Tail(sorted), x)
    ELSE <<x>> \o sorted

RECURSIVE RSort(_)
RSort(xs) == IF xs = <<>> THEN <<>> ELSE RInsert(RSort(Tail(xs)), Head(xs))

\* np.median of a non-empty sequence of rationals
RMedian(xs) ==
    LET s == RSort(xs)
        n == Len(s)
    IN IF n % 2 = 1 THEN s[(n + 1) \div 2]
       ELSE RDiv(RAdd(s[n \div 2], s[n \div 2 + 1]), RInt(2))

\* np.percentile(xs, q) with linear interpolation, q in 0..100
RPercentile(xs, q) ==
    LET s == RSort(xs)
        n == Len(s)
        rank == R(q * (n - 1), 100)
        lo == RFloor(rank)
        frac == RSub(rank, RInt(lo))
    IN IF lo + 1 >= n THEN s[n]
       ELSE RAdd(s[lo + 1], RMul(frac, RSub(s[lo + 2], s[lo + 1])))

RECURSIVE RMinSeq(_)
RMinSeq(xs) == IF Len(xs) = 1 THEN xs[1] ELSE RMin(xs[1], RMinSeq(Tail(xs)))

RMean(xs) == RDiv(RSum(xs), RInt(Len(xs)))

\* the sample variance (ddof = 1) of two or more values: Series.std() squared
RVariance(xs) ==
    LET m == RMean(xs)
    IN RDiv(RSum([i \in 1..Len(xs) |-> RMul(RSub(xs[i], m), RSub(xs[i], m))]),
            RInt(Len(xs) - 1))

SeqToSet(s) == {s[i] : i \in 1..Len(s)}

SetMin(S) == CHOOSE x \in S : \A y \in S : x <= y

SetMax(S) == CHOOSE x \in S : \A y \in S : x >= y

Count(s, v) == Cardinality({i \in 1..Len(s) : s[i] = v})

\* Series.mode().iloc[0] of integers: the smallest of the most frequent
IntMode(s) ==
    SetMin({v \in SeqToSet(s) : \A w \in SeqToSet(s) : Count(s, v) >= Count(s, w)})

\* the set S as a sequence in increasing order
RECURSIVE SetToSortedSeq(_)
SetToSortedSeq(S) ==
    IF S = {} THEN <<>>
    ELSE <<SetMin(S)>> \o SetToSortedSeq(S \ {SetMin(S)})

RECURSIVE Flatten(_)
Flatten(ss) == IF ss = <<>> THEN <<>> ELSE Head(ss) \o Flatten(Tail(ss))

(***************************************************************************)
(* History builder, seasonality and the recurrence detector                *)
(***************************************************************************)
\* characters in increasing code-point order, for comparing normalized
\* descriptions the way groupby orders its keys
Alphabet ==
    <<" ", "0", "1", "2", "3", "4", "5", "6", "7", "8", "9",
      "a", "b", "c", "d", "e", "f", "g", "h", "i", "j", "k", "l", "m",
      "n", "o", "p", "q", "r", "s", "t", "u", "v", "w", "x", "y", "z">>

CharRank(c) == CHOOSE i \in 1..Len(Alphabet) : Alphabet[i] = c

RECURSIVE StrLe(_, _)
StrLe(a, b) ==
    IF a = <<>> THEN TRUE
    ELSE IF b = <<>> THEN FALSE
    ELSE IF Head(a) = Head(b) THEN StrLe(Tail(a), Tail(b))
    ELSE CharRank(Head(a)) < CharRank(Head(b))

RECURSIVE SortStrings(_)
SortStrings(S) ==
    IF S = {} THEN <<>>
    ELSE LET m == CHOOSE x \in S : \A y \in S : StrLe(x, y)
         IN <<m>> \o SortStrings(S \ {m})

\* the category names in alphabetical order, for Series.mode() of categories
CategoryOrder ==
    <<"bank_fee", "car_payment", "credit_card_fee", "dining", "entertainment",
      "gas", "gifts", "groceries", "healthcare", "income", "insurance",
      "internet", "mortgage", "other", "phone", "rent", "shopping",
      "subscriptions", "travel", "utilities">>

\* Series.mode().iloc[0] of categories
CategoryMode(s) ==
    LET most == {v \in SeqToSet(s) : \A w \in SeqToSet(s) : Count(s, v) >= Count(s, w)}
        first == SetMin({i \in 1..Len(CategoryOrder) : CategoryOrder[i] \in most})
    IN CategoryOrder[first]

IsDated(row) == row.date # NoDate

\* _generate_baseline: the sanitized ledger ordered by date
GenerateBaseline(transactions) == SortByDate(transactions)

\* tx_df[tx_df['date'] < start_date]; a missing date compares False
HistoryBefore(tx_df, start_date) ==
    SelectSeq(tx_df, LAMBDA row : IsDated(row) /\ row.date < start_date)

Amounts(rows) == [i \in 1..Len(rows) |-> rows[i].amount]

AbsAmounts(rows) == [i \in 1..Len(rows) |-> RAbs(rows[i].amount)]

\* _seasonality_factors(history_df[history_df['amount'] < 0]) read at
\* (category, month): month_avg / base_avg, and 1.0 where there is no entry
SeasonalityFactor(history_df, category, month) ==
    LET cat_group == SelectSeq(history_df,
                         LAMBDA row : RSign(row.amount) < 0 /\ row.category = category)
        month_group == SelectSeq(cat_group, LAMBDA row : YMD(row.date).month = month)
    IN IF cat_group = <<>> \/ month_group = <<>> THEN RInt(1)
       ELSE RDiv(RMean(AbsAmounts(month_group)), RMean(AbsAmounts(cat_group)))

behavior_extended_history_categories ==
    {"rent", "mortgage", "insurance", "internet", "phone", "utilities", "income"}

behavior_skip_categories == {"other", "healthcare", "travel", "gifts"}

\* _seasonal_adjust
SeasonalAdjust(amount, category, target_date, history_df) ==
    LET raw == SeasonalityFactor(history_df, category, YMD(target_date).month)
        factor == IF category \in behavior_extended_history_categories THEN RInt(1)
                  ELSE IF RSign(amount) < 0
                  THEN RMax(RMin(raw, R(3, 2)), R(13, 20))
                  ELSE RMin(RMax(raw, R(7, 10)), R(9, 5))
    IN IF RSign(amount) = 0 THEN RZero ELSE RMul(amount, factor)

recurring_recent_window_days == 180
recurring_max_inactive_days == 120
recurring_min_recency_hits == 2
recurring_min_monthly_occurrences == 3
recurring_min_quarterly_occurrences == 3
recurring_min_yearly_occurrences == 3
recurring_minimum_interval == 5

\* recurring_min_interval_match_ratio = 0.6
recurring_min_interval_match_ratio == R(6, 10)

\* recurring_staleness_multiplier = 1.4
recurring_staleness_multiplier == R(14, 10)

\* _determine_pattern on the median interval
DeterminePattern(median_interval) ==
    IF RLe(median_interval, RInt(8)) THEN "weekly"
    ELSE IF RLe(median_interval, RInt(16)) THEN "biweekly"
    ELSE IF RLe(median_interval, RInt(35)) THEN "monthly"
    ELSE IF RLe(median_interval, RInt(95)) THEN "quarterly"
    ELSE IF RLe(median_interval, RInt(400)) THEN "yearly"
    ELSE "none"

\* the tolerance bucket of the interval-consistency test
IntervalTolerance(median_interval) ==
    IF RLe(median_interval, RInt(8)) THEN 1
    ELSE IF RLe(median_interval, RInt(16)) THEN 2
    ELSE IF RLe(median_interval, RInt(35)) THEN 5
    ELSE 10

\* the filters of the loop without the count of the occurrences of the
\* last recurring_recent_window_days days
DetectTemplateAnyRecency(group, dates, intervals, median, avg_amount, desc_key, history_end) ==
    LET count == Len(group)
        pattern == DeterminePattern(median)
        tolerance == RInt(IntervalTolerance(median))
        matches == Cardinality({i \in 1..Len(intervals) :
                       RLe(RAbs(RSub(intervals[i], median)), tolerance)})
        match_ratio == R(matches, Len(intervals))
        variance == RVariance(Amounts(group))
        category == IF RSign(avg_amount) > 0 THEN "income"
                    ELSE CategoryMode([i \in 1..count |-> group[i].category])
        last_date == dates[count]
        inactive_days == history_end - last_date
        staleness_limit == RMax(RInt(recurring_minimum_interval),
                                RMul(median, recurring_staleness_multiplier))
    IN IF count < 2 THEN <<>>
       ELSE IF Cardinality(SeqToSet(dates)) < 2 THEN <<>>
       ELSE IF pattern = "none" THEN <<>>
       ELSE IF pattern \in {"weekly", "biweekly"} /\ count < 3 THEN <<>>
       ELSE IF pattern = "monthly" /\ count < recurring_min_monthly_occurrences THEN <<>>
       ELSE IF pattern = "quarterly" /\ count < recurring_min_quarterly_occurrences THEN <<>>
       ELSE IF pattern = "yearly" /\ count < recurring_min_yearly_occurrences THEN <<>>
       ELSE IF RLt(median, RInt(recurring_minimum_interval)) THEN <<>>
       ELSE IF RLt(match_ratio, recurring_min_interval_match_ratio) THEN <<>>
       ELSE IF RLt(RAbs(avg_amount), RInt(1)) THEN <<>>
       ELSE IF RLt(RMul(R(9, 16), RMul(avg_amount, avg_amount)), variance) THEN <<>>
       ELSE IF category \in behavior_skip_categories /\ RSign(avg_amount) < 0 THEN <<>>
       ELSE IF inactive_days > recurring_max_inactive_days THEN <<>>
       ELSE IF RLt(staleness_limit, RInt(inactive_days)) THEN <<>>
       ELSE << [description |-> group[count].description,
                normalized_description |-> desc_key,
                amount |-> avg_amount,
                last_amount |-> group[count].amount,
                category |-> category,
                pattern |-> pattern,
                weekday |-> IntMode([i \in 1..count |-> Weekday(dates[i])]),
                day |-> IntMode([i \in 1..count |-> YMD(dates[i]).day]),
                last_date |-> last_date,
                type |-> IF RSign(avg_amount) > 0 THEN "income" ELSE "expense"] >>

\* the body of the groupby loop of _detect_recurring_transactions for one
\* normalized description: <<template>> when the series survives every
\* filter, <<>> otherwise
DetectTemplate(group, dates, intervals, median, avg_amount, desc_key, history_end) ==
    LET count == Len(group)
        pattern == DeterminePattern(median)
        tolerance == RInt(IntervalTolerance(median))
        matches == Cardinality({i \in 1..Len(intervals) :
                       RLe(RAbs(RSub(intervals[i], median)), tolerance)})
        match_ratio == R(matches, Len(intervals))
        variance == RVariance(Amounts(group))
        category == IF RSign(avg_amount) > 0 THEN "income"
                    ELSE CategoryMode([i \in 1..count |-> group[i].category])
        last_date == dates[count]
        inactive_days == history_end - last_date
        staleness_limit == RMax(RInt(recurring_minimum_interval),
                                RMul(median, recurring_staleness_multiplier))
        recent_count == Cardinality({i \in 1..count :
                            dates[i] >= history_end - recurring_recent_window_days})
    IN IF count < 2 THEN <<>>
       ELSE IF Cardinality(SeqToSet(dates)) < 2 THEN <<>>
       ELSE IF pattern = "none" THEN <<>>
       ELSE IF pattern \in {"weekly", "biweekly"} /\ count < 3 THEN <<>>
       ELSE IF pattern = "monthly" /\ count < recurring_min_monthly_occurrences THEN <<>>
       ELSE IF pattern = "quarterly" /\ count < recurring_min_quarterly_occurrences THEN <<>>
       ELSE IF pattern = "yearly" /\ count < recurring_min_yearly_occurrences THEN <<>>
       ELSE IF RLt(median, RInt(recurring_minimum_interval)) THEN <<>>
       ELSE IF RLt(match_ratio, recurring_min_interval_match_ratio) THEN <<>>
       ELSE IF RLt(RAbs(avg_amount), RInt(1)) THEN <<>>
       ELSE IF RLt(RMul(R(9, 16), RMul(avg_amount, avg_amount)), variance) THEN <<>>
       ELSE IF category \in behavior_skip_categories /\ RSign(avg_amount) < 0 THEN <<>>
       ELSE IF inactive_days > recurring_max_inactive_days THEN <<>>
       ELSE IF RLt(staleness_limit, RInt(inactive_days)) THEN <<>>
       ELSE IF recent_count < recurring_min_recency_hits THEN <<>>
       ELSE << [description |-> group[count].description,
                normalized_description |-> desc_key,
                amount |-> avg_amount,
                last_amount |-> group[count].amount,
                category |-> category,
                pattern |-> pattern,
                weekday |-> IntMode([i \in 1..count |-> Weekday(dates[i])]),
                day |-> IntMode([i \in 1..count |-> YMD(dates[i]).day]),
                last_date |-> last_date,
                type |-> IF RSign(avg_amount) > 0 THEN "income" ELSE "expense"] >>

\* the dates of a group, the intervals between them in days, their median
\* and the mean amount
DetectSeries(group, desc_key, history_end) ==
    LET dates == [i \in 1..Len(group) |-> group[i].date]
        intervals == [i \in 1..(Len(group) - 1) |-> RInt(dates[i + 1] - dates[i])]
    IN DetectTemplate(group, dates, intervals, RMedian(intervals),
                      RMean(Amounts(group)), desc_key, history_end)

\* the group of one normalized description in the groupby of
\* _detect_recurring_transactions
DetectGroup(history_df, desc_key, history_end) ==
    DetectSeries(SelectSeq(history_df,
                     LAMBDA row : Normalized(row.description) = desc_key),
                 desc_key, history_end)

\* _detect_recurring_transactions(history_df)
DetectRecurringTransactions(history_df) ==
    IF history_df = <<>> THEN <<>>
    ELSE LET keys == SortStrings({Normalized(history_df[i].description) :
                                      i \in 1..Len(history_df)} \ {<<>>})
             history_end == SetMax({history_df[i].date : i \in 1..Len(history_df)})
         IN Flatten([k \in 1..Len(keys) |->
                        DetectGroup(history_df, keys[k], history_end)])

(***************************************************************************)
(* Display labels (_format_alias_label, _category_alias_map)               *)
(***************************************************************************)
LowerToUpper ==
    [a |-> "A", b |-> "B", c |-> "C", d |-> "D", e |-> "E", f |-> "F",
     g |-> "G", h |-> "H", i |-> "I", j |-> "J", k |-> "K", l |-> "L",
     m |-> "M", n |-> "N", o |-> "O", p |-> "P", q |-> "Q", r |-> "R",
     s |-> "S", t |-> "T", u |-> "U", v |-> "V", w |-> "W", x |-> "X",
     y |-> "Y", z |-> "Z"]

UpperChar(c) == IF c \in DOMAIN LowerToUpper THEN LowerToUpper[c] ELSE c

\* str.capitalize()
Capitalize(word) ==
    IF word = <<>> THEN <<>> ELSE <<UpperChar(Head(word))>> \o Lower(Tail(word))

\* " ".join(word.capitalize() for word in label.split())
CapitalizeWords(label) ==
    LET words == Split(label)
    IN Join([i \in 1..Len(words) |-> Capitalize(words[i])])

\* the category names as text
CategoryText ==
    [rent |-> <<"r","e","n","t">>,
     mortgage |-> <<"m","o","r","t","g","a","g","e">>,
     utilities |-> <<"u","t","i","l","i","t","i","e","s">>,
     internet |-> <<"i","n","t","e","r","n","e","t">>,
     phone |-> <<"p","h","o","n","e">>,
     insurance |-> <<"i","n","s","u","r","a","n","c","e">>,
     car_payment |-> <<"c","a","r","_","p","a","y","m","e","n","t">>,
     subscriptions |-> <<"s","u","b","s","c","r","i","p","t","i","o","n","s">>,
     credit_card_fee |-> <<"c","r","e","d","i","t","_","c","a","r","d","_","f","e","e">>,
     bank_fee |-> <<"b","a","n","k","_","f","e","e">>,
     groceries |-> <<"g","r","o","c","e","r","i","e","s">>,
     gas |-> <<"g","a","s">>,
     dining |-> <<"d","i","n","i","n","g">>,
     entertainment |-> <<"e","n","t","e","r","t","a","i","n","m","e","n","t">>,
     shopping |-> <<"s","h","o","p","p","i","n","g">>,
     healthcare |-> <<"h","e","a","l","t","h","c","a","r","e">>,
     gifts |-> <<"g","i","f","t","s">>,
     travel |-> <<"t","r","a","v","e","l">>,
     income |-> <<"i","n","c","o","m","e">>,
     other |-> <<"o","t","h","e","r">>]

\* category.replace('_', ' ').title()
CategoryTitle(category) ==
    CapitalizeWords([i \in 1..Len(CategoryText[category]) |->
                        IF CategoryText[category][i] = "_" THEN " "
                        ELSE CategoryText[category][i]])

alias_stopwords ==
    { <<"w","e","b">>,
      <<"i","d">>,
      <<"p","p","d">>,
      <<"t","r","a","n","s","a","c","t","i","o","n">>,
      <<"o","n","l","i","n","e">>,
      <<"t","r","a","n","s","f","e","r">>,
      <<"p","a","y","m","e","n","t">>,
      <<"m","a","n","u","a","l">>,
      <<"a","u","t","o","p","a","y">>,
      <<"a","c","c","o","u","n","t">>,
      <<"m","e","m","o">>,
      <<"c","r","e","d","i","t">>,
      <<"d","e","b","i","t">>,
      <<"v","i","s","a">>,
      <<"m","a","s","t","e","r","c","a","r","d">>,
      <<"p","u","r","c","h","a","s","e">>,
      <<"s","a","l","e">>,
      <<"c","a","r","d">>,
      <<"i","n","s","t">>,
      <<"x","f","e","r">>,
      <<"t","o">>,
      <<"f","r","o","m">>,
      <<"l","l","c">>,
      <<"i","n","c">>,
      <<"c","o","m","p","a","n","y">>,
      <<"c","o","r","p">>,
      <<"c","o">>,
      <<"p","l","l","c">>,
      <<"l","l","p">>,
      <<"a","b","a">>,
      <<"a","c","h">>,
      <<"p","l","c">>,
      <<"n","a">> }

HasDigit(token) == \E i \in 1..Len(token) : token[i] \in Digits

\* re.sub(r"[^a-zA-Z\s]", " ", sample_text).lower()
LettersOnly(s) ==
    Lower([i \in 1..Len(s) |->
              IF LowerChar(s[i]) \in LowerLetters \/ IsSpace(s[i]) THEN s[i] ELSE " "])

KeepLabelToken(token) == token \notin alias_stopwords /\ ~ HasDigit(token)

FirstN(s, n) == SubSeq(s, 1, Min(n, Len(s)))

S_Other == <<"O","t","h","e","r">>

\* _format_alias_label(normalized, sample)
FormatAliasLabel(normalized, sample) ==
    LET base == Strip(normalized)
        sample_text == Strip(sample)
        tokens == Split(base)
        from_base == SelectSeq([i \in 1..Len(tokens) |-> Lower(tokens[i])], KeepLabelToken)
        from_sample == SelectSeq(Split(LettersOnly(sample_text)), KeepLabelToken)
        filtered == IF from_base # <<>> THEN from_base
                    ELSE IF sample_text # <<>> /\ from_sample # <<>> THEN from_sample
                    ELSE FirstN(tokens, 3)
        joined == Strip(Join(FirstN(filtered, 4)))
        label == IF joined # <<>> THEN joined
                 ELSE IF sample_text # <<>> THEN sample_text
                 ELSE IF base # <<>> THEN base
                 ELSE S_Other
    IN CapitalizeWords(label)

S_dash == <<" ","-"," ">>

\* the rows _category_alias_map works on: expenses of the category with a
\* non-empty normalized description
AliasRows(history_df, category) ==
    SelectSeq(history_df,
        LAMBDA row : /\ row.category = category
                     /\ RSign(row.amount) < 0
                     /\ Normalized(row.description) # <<>>)

HasAlias(history_df, category) == AliasRows(history_df, category) # <<>>

\* _category_alias_map(history_df)[category]['display'], for a category that
\* has an alias: the label of the normalized description with the largest
\* spend, prefixed by the category title when its share is below 35%
AliasPrimary(category, keys, Group, Total) ==
    LET total_spend == RSum(Total)
        primary == SetMin({k \in 1..Len(keys) :
                              \A j \in 1..Len(keys) : RLe(Total[j], Total[k])})
        sample == Group[primary][Len(Group[primary])].description
        share == RDiv(Total[primary], total_spend)
    IN (IF category = "other" \/ RLe(R(35, 100), share) THEN <<>>
        ELSE CategoryTitle(category) \o S_dash)
       \o FormatAliasLabel(keys[primary], sample)

\* the groupby of _category_alias_map over the normalized descriptions of
\* the rows: the keys in order, the rows and the spend of each key
AliasGroups(category, rows) ==
    LET keys == SortStrings({Normalized(rows[i].description) : i \in 1..Len(rows)})
    IN AliasPrimary(category, keys,
           [k \in 1..Len(keys) |->
               SelectSeq(rows, LAMBDA row : Normalized(row.description) = keys[k])],
           [k \in 1..Len(keys) |->
               RSum(AbsAmounts(SelectSeq(rows,
                        LAMBDA row : Normalized(row.description) = keys[k])))])

\* _category_alias_map(history_df)[category]['display']
AliasDisplay(history_df, category) ==
    AliasGroups(category, AliasRows(history_df, category))

(***************************************************************************)
(* Template augmentation (_augment_recurring_templates)                    *)
(***************************************************************************)
behavior_recent_days == 120

\* resample('MS').sum(): one total per calendar month from the first to the
\* last month that has a row, months without rows included with total 0
MonthlyTotals(rows) ==
    LET first == SetMin({MonthIndex(rows[i].date) : i \in 1..Len(rows)})
        last == SetMax({MonthIndex(rows[i].date) : i \in 1..Len(rows)})
    IN [k \in 1..(last - first + 1) |->
           RSum(Amounts(SelectSeq(rows,
                    LAMBDA row : MonthIndex(row.date) = first + k - 1)))]

\* Series.tail(n)
LastN(s, n) == SubSeq(s, Len(s) - Min(n, Len(s)) + 1, Len(s))

S_category_prefix == <<"_","_","c","a","t","e","g","o","r","y","_","_",":",":">>

S_inferred == <<" ","(","i","n","f","e","r","r","e","d",")">>

S_projected == <<" ","(","p","r","o","j","e","c","t","e","d",")">>

\* the order in which the fallback categories are visited; every category
\* is decided independently of the others
FallbackCategories ==
    <<"rent", "mortgage", "insurance", "internet", "phone", "utilities", "income">>

\* the body of the fallback loop of _augment_recurring_templates for one
\* category: <<template>> when one is synthesized, <<>> otherwise
AugmentTemplate(history_df, templates, start_date, category, target_df, last_event, monthly_totals, avg_amount) ==
    LET dates == [i \in 1..Len(target_df) |-> target_df[i].date]
        staleness_limit_days == Max(behavior_recent_days * 2, 240)
    IN IF \E i \in 1..Len(templates) : templates[i].category = category THEN <<>>
       ELSE IF Len(target_df) < 2 THEN <<>>
       ELSE IF start_date - last_event > staleness_limit_days THEN <<>>
       ELSE IF category = "income" /\ monthly_totals = <<>> THEN <<>>
       ELSE IF category = "income" /\ RSign(avg_amount) <= 0 THEN <<>>
       ELSE IF category # "income" /\ RLe(RNeg(Epsilon), avg_amount) THEN <<>>
       ELSE << [description |-> IF HasAlias(history_df, category)
                                THEN AliasDisplay(history_df, category) \o S_inferred
                                ELSE CategoryTitle(category),
                normalized_description |-> S_category_prefix \o CategoryText[category],
                amount |-> avg_amount,
                last_amount |-> avg_amount,
                category |-> category,
                pattern |-> "monthly",
                weekday |-> IntMode([i \in 1..Len(dates) |-> Weekday(dates[i])]),
                day |-> IntMode([i \in 1..Len(dates) |-> YMD(dates[i]).day]),
                last_date |-> last_event,
                type |-> IF RSign(avg_amount) > 0 THEN "income" ELSE "expense"] >>

\* the amount of the synthesized template: the median of the last three
\* positive monthly totals for income, the largest recent expense otherwise
AugmentAmount(category, target_df, last_event, monthly_totals) ==
    IF category = "income"
    THEN RMedian(LastN(monthly_totals, 3))
    ELSE RMinSeq(Amounts(SelectSeq(target_df,
             LAMBDA row : row.date >= last_event - Max(behavior_recent_days, 120))))

\* the rows of the category with the sign the category expects, their last
\* date and their positive monthly totals
AugmentSeries(history_df, templates, start_date, category, target_df) ==
    LET last_event == SetMax({target_df[i].date : i \in 1..Len(target_df)})
        monthly_totals == SelectSeq(MonthlyTotals(target_df), LAMBDA x : RSign(x) > 0)
    IN AugmentTemplate(history_df, templates, start_date, category, target_df,
                       last_event, monthly_totals,
                       AugmentAmount(category, target_df, last_event, monthly_totals))

\* cat_df filtered to the sign the category expects (target_df)
AugmentCategory(history_df, templates, start_date, category) ==
    AugmentSeries(history_df, templates, start_date, category,
        SelectSeq(history_df,
            LAMBDA row : /\ row.category = category
                         /\ IF category = "income" THEN RLt(Epsilon, row.amount)
                            ELSE RLt(row.amount, RNeg(Epsilon))))

\* _augment_recurring_templates(history_df, templates, start_date, aliases)
AugmentRecurringTemplates(history_df, templates, start_date) ==
    IF history_df = <<>> THEN templates
    ELSE templates \o
         Flatten([k \in 1..Len(FallbackCategories) |->
                     AugmentCategory(history_df, templates, start_date,
                                     FallbackCategories[k])])

(***************************************************************************)
(* Scheduled events (_expand_scheduled) and the recurrence projector       *)
(* (_generate_recurring_events)                                            *)
(***************************************************************************)
\* a scheduled item without a weekday
NoWeekday == -1

RECURSIVE StepDates(_, _, _)
\* while current <= end: emit current; current += step
StepDates(current, step, end) ==
    IF current > end THEN <<>>
    ELSE <<current>> \o StepDates(current + step, step, end)

\* the cadence resumed at its first date, before start_ts or not
SkipDaysNone(current, step, start) == current

RECURSIVE SkipDays(_, _, _)
\* while current < start: current += step
SkipDays(current, step, start) ==
    IF current < start THEN SkipDays(current + step, step, start) ELSE current

RECURSIVE SkipMonths(_, _, _)
\* while current < start: current += DateOffset(months=k)
SkipMonths(current, k, start) ==
    IF current < start THEN SkipMonths(AddMonths(current, k), k, start) ELSE current

RECURSIVE MonthDates(_, _, _)
\* while current <= end: emit current; current += DateOffset(months=k)
MonthDates(current, k, end) ==
    IF current > end THEN <<>>
    ELSE <<current>> \o MonthDates(AddMonths(current, k), k, end)

RECURSIVE SkipSameDay(_, _, _)
\* while next_date < start: next_date = _advance_month_same_day(next_date, 1, day)
SkipSameDay(next_date, target_day, start) ==
    IF next_date < start
    THEN SkipSameDay(AdvanceMonthSameDay(next_date, 1, target_day), target_day, start)
    ELSE next_date

RECURSIVE SameDayDates(_, _, _)
SameDayDates(next_date, target_day, end) ==
    IF next_date > end THEN <<>>
    ELSE <<next_date>> \o
         SameDayDates(AdvanceMonthSameDay(next_date, 1, target_day), target_day, end)

\* the day of the month a monthly scheduled item falls on in the month of
\* `current`: the month's last day for day <= 0, else the day clamped to it
ScheduledMonthDay(current, day) ==
    LET ymd == YMD(current)
        month_last_day == DaysInMonth(ymd.year, ymd.month)
    IN DayNumber(ymd.year, ymd.month,
                 IF day <= 0 THEN month_last_day ELSE Min(day, month_last_day))

\* the dates _expand_scheduled gives one scheduled item
ScheduledDates(s, start_ts, horizon) ==
    LET horizon_end == start_ts + horizon
        anchor_ts == IF s.date # NoDate THEN s.date ELSE start_ts
        first_offset == (s.weekday - Weekday(start_ts)) % 7
        candidates == MonthDates(SkipMonths(anchor_ts, 1, start_ts), 1, horizon_end)
        monthly == [i \in 1..Len(candidates) |-> ScheduledMonthDay(candidates[i], s.day)]
    IN IF s.pattern = "weekly" /\ s.weekday # NoWeekday
       THEN StepDates(start_ts + first_offset, 7, horizon_end)
       ELSE IF s.pattern = "biweekly" /\ s.weekday # NoWeekday
       THEN StepDates(start_ts + first_offset, 14, horizon_end)
       ELSE IF s.pattern = "monthly"
       THEN SelectSeq(monthly, LAMBDA d : start_ts <= d /\ d <= horizon_end)
       ELSE IF s.pattern = "oneoff"
       THEN (IF s.date # NoDate /\ start_ts <= s.date /\ s.date <= horizon_end
             THEN <<s.date>> ELSE <<>>)
       ELSE <<>>

\* the rows of one scheduled item, one per date
ScheduledItemRows(s, dates) ==
    [i \in 1..Len(dates) |->
        [date |-> dates[i],
         amount |-> s.amount,
         description |-> Strip(s.description)]]

\* _expand_scheduled(scheduled, start_date, horizon)
ExpandScheduled(scheduled, start_date, horizon) ==
    Flatten([k \in 1..Len(scheduled) |->
                ScheduledItemRows(scheduled[k],
                                  ScheduledDates(scheduled[k], start_date, horizon))])

RECURSIVE RPow(_, _)
RPow(x, k) == IF k = 0 THEN RInt(1) ELSE RMul(x, RPow(x, k - 1))

\* the months a pattern's DateOffset advances by
PatternMonths(pattern) ==
    IF pattern = "monthly" THEN 1 ELSE IF pattern = "quarterly" THEN 3 ELSE 12

\* the last amount carried forward without the rent escalation
SameDayAmountFlat(template, event_date) == Round2(template.last_amount)

\* the amount of a monthly rent / subscription event: rent escalates by 3%
\* per whole year since the template's last date
SameDayAmount(template, event_date) ==
    LET base == YMD(template.last_date)
        evt == YMD(event_date)
        months_since == Max((evt.year - base.year) * 12 + (evt.month - base.month), 0)
    IN IF template.category = "rent"
       THEN Round2(RMul(template.last_amount, RPow(R(103, 100), months_since \div 12)))
       ELSE Round2(template.last_amount)

\* a template is suppressed when a scheduled item has its normalized
\* description or its (category, polarity)
SuppressedBySchedule(cache, template, scheduled) ==
    \/ \E k \in 1..Len(scheduled) :
          /\ scheduled[k].description # <<>>
          /\ Normalized(scheduled[k].description) = template.normalized_description
    \/ \E k \in 1..Len(scheduled) :
          /\ CategorizeTransaction(cache, scheduled[k].description, NoAmount) = template.category
          /\ Sign(RSign(scheduled[k].amount)) = (IF RSign(template.amount) > 0 THEN 1 ELSE -1)

\* monthly rent and subscription templates keep their day of the month
SameDayTemplate(template) ==
    template.pattern = "monthly"
    /\ template.category \in {"rent", "subscriptions", "subscription"}

\* the dates the cadence loop of a template visits, from the first one on or
\* after start_ts to end_date
TemplateDates(template, start_ts, end_date) ==
    LET current == template.last_date
        step_days == IF template.pattern = "weekly" THEN 7 ELSE 14
        months == PatternMonths(template.pattern)
    IN IF template.pattern \in {"weekly", "biweekly"}
       THEN StepDates(SkipDays(current + step_days, step_days, start_ts),
                      step_days, end_date)
       ELSE IF SameDayTemplate(template)
       THEN SameDayDates(
                SkipSameDay(AdvanceMonthSameDay(current, 1, template.day),
                            template.day, start_ts),
                template.day, end_date)
       ELSE MonthDates(SkipMonths(AddMonths(current, months), months, start_ts),
                       months, end_date)

\* one projected row per date of the cadence
TemplateRows(template, dates, history_df) ==
    [i \in 1..Len(dates) |->
        [date |-> dates[i],
         amount |-> IF SameDayTemplate(template) THEN SameDayAmount(template, dates[i])
                    ELSE SeasonalAdjust(template.amount, template.category,
                                        dates[i], history_df),
         category |-> template.category,
         description |-> template.description \o S_projected,
         source |-> "recurring"]]

\* the events _generate_recurring_events emits for one template
TemplateEvents(cache, template, start_ts, horizon, history_df, scheduled) ==
    IF SuppressedBySchedule(cache, template, scheduled) THEN <<>>
    ELSE TemplateRows(template, TemplateDates(template, start_ts, start_ts + horizon),
                      history_df)

\* _generate_recurring_events(templates, start_date, horizon, seasonality,
\* scheduled): the events frame
GenerateRecurringEvents(cache, templates, start_date, horizon, history_df, scheduled) ==
    Flatten([k \in 1..Len(templates) |->
                TemplateEvents(cache, templates[k], start_date, horizon,
                               history_df, scheduled)])

\* the events frame and the insights of _generate_recurring_events: one
\* insight per template that projected events (_build_recurring_insight)
RecurringOf(templates, events) ==
    [rows |-> Flatten(events),
     insights |-> Flatten([k \in 1..Len(templates) |->
                     IF events[k] = <<>> THEN <<>>
                     ELSE <<[category |-> templates[k].category,
                             type |-> templates[k].type,
                             pattern |-> templates[k].pattern,
                             source |-> "recurring"]>>])]

\* _generate_recurring_events(templates, start_date, horizon, seasonality,
\* scheduled): the events frame and the insights
RecurringProjection(cache, templates, start_date, horizon, history_df, scheduled) ==
    RecurringOf(templates,
        [k \in 1..Len(templates) |->
            TemplateEvents(cache, templates[k], start_date, horizon, history_df,
                           scheduled)])

(***************************************************************************)
(* Reconciliation (_compute_expected_total, _apply_category_targets)       *)
(***************************************************************************)
\* self.reconciliation_categories, in the order the loop visits them
ReconciliationOrder ==
    <<"income", "rent", "groceries", "dining", "bank_fee", "gas", "shopping",
      "subscriptions", "healthcare", "other">>

reconciliation_categories ==
    [income |-> [polarity |-> "positive", min_abs |-> RInt(200),
                 satisfied_ratio |-> R(93, 100), only_increase |-> TRUE,
                 max_scale |-> RInt(4), interval_days |-> 14, max_events |-> 3],
     rent |-> [polarity |-> "negative", min_abs |-> RInt(400),
               satisfied_ratio |-> R(85, 100), only_increase |-> TRUE,
               max_scale |-> R(35, 10), interval_days |-> 30, max_events |-> 2],
     groceries |-> [polarity |-> "negative", min_abs |-> RInt(60),
                    satisfied_ratio |-> R(55, 100), only_increase |-> FALSE,
                    max_scale |-> R(18, 10), interval_days |-> 7, max_events |-> 4],
     dining |-> [polarity |-> "negative", min_abs |-> RInt(40),
                 satisfied_ratio |-> R(50, 100), only_increase |-> FALSE,
                 max_scale |-> R(19, 10), interval_days |-> 7, max_events |-> 4],
     bank_fee |-> [polarity |-> "negative", min_abs |-> RInt(20),
                   satisfied_ratio |-> R(50, 100), only_increase |-> FALSE,
                   max_scale |-> RInt(3), interval_days |-> 30, max_events |-> 1],
     gas |-> [polarity |-> "negative", min_abs |-> RInt(40),
              satisfied_ratio |-> R(60, 100), only_increase |-> FALSE,
              max_scale |-> R(17, 10), interval_days |-> 14, max_events |-> 3],
     shopping |-> [polarity |-> "negative", min_abs |-> RInt(60),
                   satisfied_ratio |-> R(50, 100), only_increase |-> FALSE,
                   max_scale |-> R(17, 10), interval_days |-> 14, max_events |-> 3],
     subscriptions |-> [polarity |-> "negative", min_abs |-> RInt(40),
                        satisfied_ratio |-> R(70, 100), only_increase |-> FALSE,
                        max_scale |-> R(26, 10), interval_days |-> 30, max_events |-> 2],
     healthcare |-> [polarity |-> "negative", min_abs |-> RInt(80),
                     satisfied_ratio |-> R(45, 100), only_increase |-> FALSE,
                     max_scale |-> R(22, 10), interval_days |-> 30, max_events |-> 2],
     other |-> [polarity |-> "any", min_abs |-> RInt(80),
                satisfied_ratio |-> R(55, 100), only_increase |-> FALSE,
                max_scale |-> R(24, 10), interval_days |-> 14, max_events |-> 4]]

\* reconciliation_max_injection_multiplier = 2.0
reconciliation_max_injection_multiplier == 2

\* the value of an expression that may be None: <<>> for None, <<x>> for x
None == <<>>

Some(x) == <<x>>

NonTiny(x) == RLt(Epsilon, RAbs(x))

\* the rows of the category that pass the polarity filter, in date order
\* (cat_series of _compute_expected_total)
CategorySeries(history_df, category, polarity) ==
    SortByDate(SelectSeq(history_df,
        LAMBDA row : /\ row.category = category
                     /\ IF polarity = "positive" THEN RLt(Epsilon, row.amount)
                        ELSE IF polarity = "negative" THEN RLt(row.amount, RNeg(Epsilon))
                        ELSE NonTiny(row.amount)))

\* the end of _compute_expected_total: the median of the candidates, pushed
\* to the 70th / 30th percentile by the polarity
ExpectedBaseline(candidates, baseline, polarity) ==
    IF polarity = "positive"
    THEN Some(RMax(baseline, IF Len(candidates) > 1
                             THEN RPercentile(candidates, 70) ELSE baseline))
    ELSE IF polarity = "negative"
    THEN Some(RMin(baseline, IF Len(candidates) > 1
                             THEN RPercentile(candidates, 30) ELSE baseline))
    ELSE Some(baseline)

\* no candidate above 1e-6 in magnitude: None
ExpectedFromCandidates(candidates, polarity) ==
    IF candidates = <<>> THEN None
    ELSE ExpectedBaseline(candidates,
                          IF Len(candidates) > 1 THEN RMedian(candidates)
                          ELSE candidates[1],
                          polarity)

\* the four projections of _compute_expected_total (monthly, recent, gap,
\* daily) of a non-empty series and of its rows within the lookback window
ExpectedCandidates(cat_series, recent_series, horizon) ==
    LET n == Len(cat_series)
        last_day == cat_series[n].date
        monthly_totals == SelectSeq(MonthlyTotals(cat_series), NonTiny)
        monthly_baseline ==
            IF monthly_totals # <<>> THEN RMedian(LastN(monthly_totals, 6))
            ELSE RDiv(RSum(Amounts(cat_series)), RMax(R(n, 4), RInt(1)))
        horizon_scale == RMax(R(horizon, 30), R(1, 2))
        monthly_projection == RMul(monthly_baseline, horizon_scale)
        recent_span == Max(last_day - recent_series[1].date + 1, 1)
        recent_projection ==
            RMul(RDiv(RSum(Amounts(recent_series)), RInt(recent_span)), RInt(horizon))
        diffs == [i \in 1..(Len(recent_series) - 1) |->
                     RInt(recent_series[i + 1].date - recent_series[i].date)]
        median_gap == RMax(RMedian(diffs), RInt(1))
        projected_events == Max(RCeil(RDiv(RInt(horizon), median_gap)), 1)
        gap_projection ==
            RMul(RMedian(Amounts(recent_series)), RInt(projected_events))
        total_span == Max(last_day - cat_series[1].date + 1, 1)
        daily_projection ==
            RMul(RDiv(RSum(Amounts(cat_series)), RInt(total_span)), RInt(horizon))
    IN <<monthly_projection, recent_projection>>
       \o (IF diffs # <<>> THEN <<gap_projection>> ELSE <<>>)
       \o <<daily_projection>>

\* an empty series has no expected total
ExpectedFromSeries(cat_series, horizon, polarity) ==
    IF cat_series = <<>> THEN None
    ELSE ExpectedFromCandidates(
             SelectSeq(ExpectedCandidates(
                           cat_series,
                           SelectSeq(cat_series,
                               LAMBDA row : row.date >= cat_series[Len(cat_series)].date
                                                        - Max(90, horizon * 2)),
                           horizon),
                       NonTiny),
             polarity)

\* _compute_expected_total(history_df, category, horizon, polarity)
ComputeExpectedTotal(history_df, category, horizon, polarity) ==
    ExpectedFromSeries(CategorySeries(history_df, category, polarity), horizon, polarity)

\* the rows of the category dated within the 120 days before start_date
RecentWindow(history_df, category, start_date) ==
    SelectSeq(history_df,
        LAMBDA row : /\ row.category = category
                     /\ row.date >= start_date - 120
                     /\ row.date < start_date)

\* the fallback target of the `other` category when _compute_expected_total
\* gives None: half the mean of the last three monthly mean amounts of the
\* recent window, scaled to the horizon
OtherFallbackTarget(history_df, start_date, horizon) ==
    LET recent_window == RecentWindow(history_df, "other", start_date)
        first == SetMin({MonthIndex(recent_window[i].date) : i \in 1..Len(recent_window)})
        last == SetMax({MonthIndex(recent_window[i].date) : i \in 1..Len(recent_window)})
        MonthRows(m) == SelectSeq(recent_window, LAMBDA row : MonthIndex(row.date) = m)
        months == SetToSortedSeq({m \in Max(first, last - 2)..last : MonthRows(m) # <<>>})
        recent_means == [k \in 1..Len(months) |-> RMean(Amounts(MonthRows(months[k])))]
    IN IF recent_window = <<>> THEN None
       ELSE Some(RMul(RMul(RMean(recent_means), RMax(R(horizon, 30), R(1, 2))), R(1, 2)))

\* the `other` category falls back to its recent monthly means
TargetOrFallback(target_total, history_df, category, start_date, horizon) ==
    IF target_total = None /\ category = "other"
    THEN OtherFallbackTarget(history_df, start_date, horizon)
    ELSE target_total

\* the target total the reconciliation loop works with for a category
TargetTotal(history_df, category, start_date, horizon) ==
    TargetOrFallback(ComputeExpectedTotal(history_df, category, horizon,
                         reconciliation_categories[category].polarity),
                     history_df, category, start_date, horizon)

\* an injection that puts the whole amount on every event
WholeEventAmount(history_df, start_date, category_name, total_amount, events_count) ==
    [amount |-> total_amount, warned |-> FALSE]

\* _compute_capped_event_amount: the per-event amount and whether the cap
\* lowered it (a warning is emitted)
ComputeCappedEventAmount(history_df, start_date, category_name, total_amount, events_count) ==
    LET recent_window == RecentWindow(history_df, category_name, start_date)
        recent_total_abs == RSum(AbsAmounts(recent_window))
        raw_event_amount == RDiv(total_amount, RInt(events_count))
        cap_basis == RMax(RMax(RAbs(total_amount), recent_total_abs), RInt(1))
        max_allowed == RMul(cap_basis, RInt(reconciliation_max_injection_multiplier))
        capped == IF RSign(total_amount) = 0 THEN RZero
                  ELSE RMul(RInt(RSign(total_amount)),
                            RMin(RAbs(raw_event_amount), max_allowed))
    IN [amount |-> capped,
        warned |-> RLt([n |-> 1, d |-> 1000000000],
                       RSub(RAbs(raw_event_amount), RAbs(capped)))]

S_baseline_adjustment == <<" ","b","a","s","e","l","i","n","e"," ","a","d","j","u","s","t","m","e","n","t">>

S_reconciliation == <<" ","r","e","c","o","n","c","i","l","i","a","t","i","o","n">>

\* num_events of an injection: between one and max_events events, one per
\* interval_days of the horizon
NumEvents(config, horizon) ==
    LET interval_days == Max(config.interval_days, 1)
        estimated_events == (horizon + interval_days - 1) \div interval_days
    IN Max(1, Min(Max(config.max_events, 1),
                  IF estimated_events <= 0 THEN 1 ELSE estimated_events))

\* the rows an injection appends for a category
InjectedRows(history_df, start_date, horizon, category, total_amount, suffix) ==
    LET config == reconciliation_categories[category]
        num_events == NumEvents(config, horizon)
        event_amount == ComputeCappedEventAmount(history_df, start_date, category,
                                                 total_amount, num_events).amount
    IN [k \in 1..num_events |->
           [date |-> start_date + Min((k - 1) * Max(config.interval_days, 1),
                                      Max(horizon - 1, 0)),
            amount |-> event_amount,
            category |-> category,
            description |-> CategoryTitle(category) \o suffix,
            type |-> "forecast",
            projection_source |-> "reconciliation"]]

\* whether _compute_capped_event_amount warns that it capped the injection
InjectionCapped(history_df, start_date, horizon, category, total_amount) ==
    ComputeCappedEventAmount(history_df, start_date, category, total_amount,
        NumEvents(reconciliation_categories[category], horizon)).warned

ForecastMask(row, start_date) == row.type = "forecast" /\ row.date >= start_date

\* one iteration of the loop of _apply_category_targets: what happens to
\* the amounts of the category's forecast rows (kept, all set to one value,
\* or all multiplied by one scale) and the rows injected
AdjustPredicted(history_df, start_date, horizon, category, config, target_total, cat_rows, predicted_total) ==
    LET any == cat_rows # <<>>
        required_magnitude == RMul(RAbs(target_total), config.satisfied_ratio)
        Meets(total) == /\ RSign(total) * RSign(target_total) > 0
                        /\ RLe(required_magnitude, RAbs(total))
        Keep(rows) == [mode |-> "keep", value |-> RZero, injected |-> rows,
                       capped |-> FALSE]
        Inject(mode, value, total, suffix) ==
            [mode |-> mode, value |-> value,
             injected |-> InjectedRows(history_df, start_date, horizon, category,
                                       total, suffix),
             capped |-> InjectionCapped(history_df, start_date, horizon, category, total)]
        raw_scale == IF RLt(Epsilon, RAbs(predicted_total))
                     THEN RDiv(target_total, predicted_total) ELSE RInt(1)
        scale == IF RSign(raw_scale) > 0 THEN RMin(raw_scale, config.max_scale)
                 ELSE RMax(raw_scale, RNeg(config.max_scale))
        adjusted_total == RMul(predicted_total, scale)
        residual == RSub(target_total, adjusted_total)
        Scaled(rows) == [mode |-> "scale", value |-> scale, injected |-> rows,
                         capped |-> FALSE]
    IN IF RLt(RAbs(target_total), config.min_abs) THEN Keep(<<>>)
       ELSE IF Meets(predicted_total) THEN Keep(<<>>)
       ELSE IF RLt(RAbs(predicted_total), Epsilon)
       THEN (IF any
             THEN [mode |-> "set",
                   value |-> RDiv(target_total, RInt(Len(cat_rows))),
                   injected |-> <<>>, capped |-> FALSE]
             ELSE Inject("keep", RZero, target_total, S_baseline_adjustment))
       ELSE IF /\ config.only_increase
               /\ RLt(Epsilon, RSub(RAbs(predicted_total),
                                    RAbs(RMul(predicted_total, raw_scale))))
       THEN Keep(<<>>)
       ELSE IF Meets(adjusted_total) THEN Scaled(<<>>)
       ELSE IF RLt(RAbs(residual), Epsilon) THEN Scaled(<<>>)
       ELSE IF config.only_increase /\ RSign(residual) * RSign(target_total) <= 0
       THEN Scaled(<<>>)
       ELSE Inject("scale", scale, residual, S_reconciliation)

\* predicted_total zeroed whatever its sign
PredictedTotalZeroed(cat_rows, summed, target_total) == RZero

\* predicted_total: the sum of the category's forecast rows, zeroed when its
\* sign opposes the target's
PredictedTotal(cat_rows, summed, target_total) ==
    IF cat_rows # <<>> /\ RSign(summed) * RSign(target_total) < 0 THEN RZero ELSE summed

\* no target: the category is left alone
AdjustToTarget(history_df, start_date, horizon, category, target, cat_rows) ==
    IF target = None
    THEN [mode |-> "keep", value |-> RZero, injected |-> <<>>, capped |-> FALSE]
    ELSE AdjustPredicted(history_df, start_date, horizon, category,
                         reconciliation_categories[category], target[1], cat_rows,
                         PredictedTotal(cat_rows, RSum(Amounts(cat_rows)), target[1]))

\* the adjustment of one category of ReconciliationOrder
CategoryAdjustment(combined_df, history_df, start_date, horizon, category) ==
    AdjustToTarget(history_df, start_date, horizon, category,
                   TargetTotal(history_df, category, start_date, horizon),
                   SelectSeq(combined_df,
                       LAMBDA row : ForecastMask(row, start_date)
                                    /\ row.category = category))

\* the rows after the loop: each forecast row of a reconciled category with
\* its category's adjustment applied, then the injected rows in loop order
ApplyAdjustments(combined_df, start_date, adjustment) ==
    LET Position(category) ==
            CHOOSE k \in 1..Len(ReconciliationOrder) : ReconciliationOrder[k] = category
        Adjusted(row, a) ==
            IF a.mode = "set" THEN [row EXCEPT !.amount = a.value]
            ELSE IF a.mode = "scale"
            THEN [row EXCEPT !.amount = RMul(row.amount, a.value)]
            ELSE row
    IN [i \in 1..Len(combined_df) |->
           IF /\ ForecastMask(combined_df[i], start_date)
              /\ combined_df[i].category \in DOMAIN reconciliation_categories
           THEN Adjusted(combined_df[i], adjustment[Position(combined_df[i].category)])
           ELSE combined_df[i]]
       \o Flatten([k \in 1..Len(ReconciliationOrder) |-> adjustment[k].injected])

\* the frame after the loop and the categories whose injection warned
ReconciledWith(combined_df, start_date, adjustment) ==
    [combined_df |-> ApplyAdjustments(combined_df, start_date, adjustment),
     capped |-> {ReconciliationOrder[k] : k \in {j \in 1..Len(ReconciliationOrder) :
                                                   adjustment[j].capped}}]

\* _apply_category_targets(combined_df, history_df, start_date, horizon)
\* with the warnings it emits
ReconcileTargets(combined_df, history_df, start_date, horizon) ==
    IF \/ \A i \in 1..Len(combined_df) : ~ ForecastMask(combined_df[i], start_date)
       \/ history_df = <<>>
    THEN [combined_df |-> combined_df, capped |-> {}]
    ELSE ReconciledWith(combined_df, start_date,
             [k \in 1..Len(ReconciliationOrder) |->
                 CategoryAdjustment(combined_df, history_df, start_date, horizon,
                                    ReconciliationOrder[k])])

\* the frame _apply_category_targets returns
ApplyCategoryTargets(combined_df, history_df, start_date, horizon) ==
    ReconcileTargets(combined_df, history_df, start_date, horizon).combined_df

(***************************************************************************)
(* The behavior projector (_generate_variable_spending)                    *)
(***************************************************************************)
behavior_max_history_days == 365
behavior_min_support == 3
behavior_income_min_support == 2
behavior_max_events_per_week == 3
behavior_recent_total_days == 120
behavior_min_recent_nonzero == 3

\* behavior_spike_std_multiplier = 1.6
behavior_spike_std_multiplier == R(16, 10)

\* behavior_income_spike_multiplier = 3.25
behavior_income_spike_multiplier == R(325, 100)

\* behavior_min_recent_total = 90.0
behavior_min_recent_total == RInt(90)

\* behavior_total_growth_ratio = 1.35
behavior_total_growth_ratio == R(135, 100)

behavior_low_support_categories ==
    {"rent", "mortgage", "insurance", "internet", "phone", "utilities", "income"}

\* self.expense_categories[category]['frequency'], "none" for a category
\* outside the table
ExpectedFrequency(category) ==
    IF category \in {"rent", "mortgage", "utilities", "internet", "phone", "insurance",
                     "car_payment", "subscriptions", "credit_card_fee", "bank_fee"}
    THEN "monthly"
    ELSE IF category \in {"groceries", "gas", "dining", "entertainment", "shopping"}
    THEN "weekly"
    ELSE IF category \in {"healthcare", "other"} THEN "irregular"
    ELSE IF category \in {"gifts", "travel"} THEN "seasonal"
    ELSE "none"

\* _support_threshold(category, is_income)
SupportThreshold(category, is_income) ==
    LET base == IF is_income THEN behavior_income_min_support ELSE behavior_min_support
    IN IF category \in behavior_low_support_categories THEN Min(base, 2) ELSE base

\* _variance_within_limits(avg_value, std_value, is_income) for a non-zero
\* median: std() of a single amount is NaN, which fails the comparison; the
\* test on two or more amounts is made on the squares
VarianceWithinLimits(amounts, avg_value, is_income) ==
    LET multiplier == IF is_income THEN behavior_income_spike_multiplier
                      ELSE behavior_spike_std_multiplier
        limit == RMul(avg_value, multiplier)
    IN IF Len(amounts) < 2 THEN FALSE
       ELSE IF RSign(RVariance(amounts)) = 0 THEN TRUE
       ELSE RLe(RVariance(amounts), RMul(limit, limit))

\* the rows of one sign: amount < -1e-6 for expenses, amount > 1e-6 for income
SignRows(rows, is_income) ==
    SelectSeq(rows, LAMBDA row : IF is_income THEN RLt(Epsilon, row.amount)
                                 ELSE RLt(row.amount, RNeg(Epsilon)))

\* working_df: the recent rows of the sign, or the last max(4 * support, 12)
\* rows of the sign when there are none; the long window again when the
\* recent rows are too few and the category (or income) may use it
WorkingRows(category, is_income, recent_group, full_group) ==
    LET support_needed == SupportThreshold(category, is_income)
        sign_recent == SignRows(recent_group, is_income)
        sign_full == LastN(SignRows(full_group, is_income), Max(support_needed * 4, 12))
        working_df == IF sign_recent # <<>> THEN sign_recent ELSE sign_full
    IN IF Len(working_df) < support_needed
          /\ (category \in behavior_extended_history_categories \/ is_income)
       THEN sign_full
       ELSE working_df

\* value_counts().sort_values(ascending=False) of the weekdays of the rows:
\* the weekdays by falling count, equal counts in the order of their first
\* row
WeekdaysOrder(dates) ==
    LET weekdays == [i \in 1..Len(dates) |-> Weekday(dates[i])]
        first(w) == SetMin({i \in 1..Len(weekdays) : weekdays[i] = w})
        distinct == SeqToSet(weekdays)
        rank(w) == Cardinality({v \in distinct :
                       \/ Count(weekdays, v) > Count(weekdays, w)
                       \/ (Count(weekdays, v) = Count(weekdays, w) /\ first(v) < first(w))})
    IN [k \in 1..Cardinality(distinct) |-> CHOOSE w \in distinct : rank(w) = k - 1]

\* working_df['date'].diff().dropna().dt.days
Intervals(dates) == [i \in 1..(Len(dates) - 1) |-> RInt(dates[i + 1] - dates[i])]

\* a classification by the median interval with the promotion of a monthly
\* category alone
FrequencyTypeByMedian(category, dates) ==
    LET by_interval == IF Len(dates) < 2 THEN "weekly"
                       ELSE IF RLe(RInt(21), RMedian(Intervals(dates))) THEN "monthly"
                       ELSE IF RLe(RInt(11), RMedian(Intervals(dates))) THEN "biweekly"
                       ELSE "weekly"
    IN IF ExpectedFrequency(category) = "monthly" /\ by_interval = "weekly" THEN "monthly"
       ELSE by_interval

\* frequency_type from the median interval and the category's expected
\* frequency
FrequencyType(category, dates) ==
    LET by_interval == IF Len(dates) < 2 THEN "weekly"
                       ELSE IF RLe(RInt(21), RMedian(Intervals(dates))) THEN "monthly"
                       ELSE IF RLe(RInt(11), RMedian(Intervals(dates))) THEN "biweekly"
                       ELSE "weekly"
    IN IF ExpectedFrequency(category) = "monthly" /\ by_interval = "weekly" THEN "monthly"
       ELSE IF ExpectedFrequency(category) = "weekly" THEN "weekly"
       ELSE by_interval

\* raw_events_per_week = len(working_df) / max(total_days / 7, 1)
RawEventsPerWeek(dates) ==
    LET total_days == Max(dates[Len(dates)] - dates[1], 1)
    IN RDiv(RInt(Len(dates)), RMax(R(total_days, 7), RInt(1)))

\* events_per_week = max(1, min(behavior_max_events_per_week, ceil(raw)))
EventsPerWeek(dates) ==
    Max(1, Min(behavior_max_events_per_week, RCeil(RawEventsPerWeek(dates))))

\* the inner loop of the weekly branch for the week that starts on
\* current_week_start: one event per occurrence on the next day with the
\* occurrence's weekday, until one falls after end_date
RECURSIVE WeekEvents(_, _, _, _, _)
WeekEvents(current_week_start, weekdays_order, occurrence, events_per_week, end_date) ==
    IF occurrence >= events_per_week THEN <<>>
    ELSE LET weekday == weekdays_order[(occurrence % Len(weekdays_order)) + 1]
             event_date == current_week_start
                           + ((weekday - Weekday(current_week_start)) % 7)
         IN IF event_date > end_date THEN <<>>
            ELSE <<event_date>> \o WeekEvents(current_week_start, weekdays_order,
                                            occurrence + 1, events_per_week, end_date)

\* while current_week_start <= end_date: the week's events; += 7 days
RECURSIVE WeeklyDates(_, _, _, _)
WeeklyDates(current_week_start, weekdays_order, events_per_week, end_date) ==
    IF current_week_start > end_date THEN <<>>
    ELSE WeekEvents(current_week_start, weekdays_order, 0, events_per_week, end_date)
         \o WeeklyDates(current_week_start + 7, weekdays_order, events_per_week, end_date)

\* int(round(x)) of a non-negative rational: halves go to the even integer
RoundHalfEven(x) ==
    LET floor == RFloor(x)
        twice == RSub(RMul(RInt(2), x), RInt(2 * floor))
    IN IF RLt(twice, RInt(1)) THEN floor
       ELSE IF RLt(RInt(1), twice) THEN floor + 1
       ELSE IF floor % 2 = 0 THEN floor ELSE floor + 1

\* the biweekly loop: at most 26 steps of interval_days from the last row,
\* each date on or after start_date moved forward to the preferred weekday
\* and the cadence resumed from the moved date
RECURSIVE BiweeklyDates(_, _, _, _, _, _)
BiweeklyDates(next_event, safety, interval_days, preferred_weekday, start_date, end_date) ==
    IF safety >= 26 THEN <<>>
    ELSE LET stepped == next_event + interval_days
             aligned_event == stepped + ((preferred_weekday - Weekday(stepped)) % 7)
         IN IF stepped < start_date
            THEN BiweeklyDates(stepped, safety + 1, interval_days, preferred_weekday,
                               start_date, end_date)
            ELSE IF aligned_event > end_date THEN <<>>
            ELSE <<aligned_event>>
                 \o BiweeklyDates(aligned_event, safety + 1, interval_days,
                                  preferred_weekday, start_date, end_date)

\* the monthly loop: at most 18 months after the month of the last row, the
\* preferred day clamped to the month's last day
RECURSIVE MonthlyDates(_, _, _, _, _, _)
MonthlyDates(last_timestamp, month_offset, safety, preferred_day, start_date, end_date) ==
    IF safety >= 18 THEN <<>>
    ELSE LET event_date == AdvanceMonthSameDay(last_timestamp, month_offset, preferred_day)
         IN IF event_date < start_date
            THEN MonthlyDates(last_timestamp, month_offset + 1, safety + 1, preferred_day,
                              start_date, end_date)
            ELSE IF event_date > end_date THEN <<>>
            ELSE <<event_date>>
                 \o MonthlyDates(last_timestamp, month_offset + 1, safety + 1,
                                 preferred_day, start_date, end_date)

S_pattern_projected ==
    <<" ","p","a","t","t","e","r","n"," ","(","p","r","o","j","e","c","t","e","d",")">>

\* display_name: the alias display of the category, or its title
DisplayName(history_df, category) ==
    IF HasAlias(history_df, category) THEN AliasDisplay(history_df, category)
    ELSE CategoryTitle(category)

\* the dates the cadence branch of the frequency type emits
BehaviorDates(frequency_type, dates, start_date, end_date) ==
    IF frequency_type = "weekly"
    THEN IF RLt(RawEventsPerWeek(dates), R(3, 10)) THEN <<>>
         ELSE WeeklyDates(start_date, WeekdaysOrder(dates), EventsPerWeek(dates), end_date)
    ELSE IF frequency_type = "biweekly"
    THEN BiweeklyDates(dates[Len(dates)], 0,
                       Max(14, RoundHalfEven(RMedian(Intervals(dates)))),
                       WeekdaysOrder(dates)[1], start_date, end_date)
    ELSE MonthlyDates(dates[Len(dates)], 1, 0,
                      IntMode([i \in 1..Len(dates) |-> YMD(dates[i]).day]),
                      start_date, end_date)

\* _append_event on every date of the cadence
BehaviorRows(history_df, category, avg_amount, dates) ==
    [i \in 1..Len(dates) |->
        [date |-> dates[i],
         amount |-> SeasonalAdjust(avg_amount, category, dates[i], history_df),
         category |-> category,
         description |-> DisplayName(history_df, category) \o S_pattern_projected,
         source |-> "behavior"]]

\* the rows projected from the median of working_df, none when the median
\* has the wrong sign or the amounts spread too far
MedianProjection(history_df, category, is_income, amounts, dates, avg_amount, start_date, horizon) ==
    IF RSign(avg_amount) # (IF is_income THEN 1 ELSE -1) THEN <<>>
    ELSE IF ~ VarianceWithinLimits(amounts, avg_amount, is_income) THEN <<>>
    ELSE BehaviorRows(history_df, category, avg_amount,
             BehaviorDates(FrequencyType(category, dates), dates, start_date,
                           start_date + horizon))

\* a pass that projects from any working_df, whatever its support and spread
SignProjectionUnsupported(history_df, category, is_income, working_df, start_date, horizon) ==
    IF working_df = <<>> THEN <<>>
    ELSE BehaviorRows(history_df, category, RMedian(Amounts(working_df)),
             BehaviorDates(FrequencyType(category,
                               [i \in 1..Len(working_df) |-> working_df[i].date]),
                           [i \in 1..Len(working_df) |-> working_df[i].date],
                           start_date, start_date + horizon))

\* one pass of the loop over (is_income, selector) for a category: the rows
\* projected from working_df, none when the support rules the projection
\* out
SignProjection(history_df, category, is_income, working_df, start_date, horizon) ==
    IF category = "income" /\ ~ is_income THEN <<>>
    ELSE IF Len(working_df) < SupportThreshold(category, is_income) THEN <<>>
    ELSE MedianProjection(history_df, category, is_income, Amounts(working_df),
                          [i \in 1..Len(working_df) |-> working_df[i].date],
                          RMedian(Amounts(working_df)), start_date, horizon)

\* the insight appended for a (category, sign) that projected events
BehaviorInsight(category, is_income, rows) ==
    IF rows = <<>> THEN <<>>
    ELSE <<[category |-> category,
            type |-> IF is_income THEN "income" ELSE "expense",
            pattern |-> "behavior",
            source |-> "behavior"]>>

\* the rows and the insights of the two passes
ProjectionOf(category, expense, income) ==
    [rows |-> expense \o income,
     insights |-> BehaviorInsight(category, FALSE, expense)
                  \o BehaviorInsight(category, TRUE, income)]

\* the expense pass and the income pass of a category
CategoryProjection(history_df, category, recent_group, full_group, start_date, horizon) ==
    ProjectionOf(category,
        SignProjection(history_df, category, FALSE,
                       WorkingRows(category, FALSE, recent_group, full_group),
                       start_date, horizon),
        SignProjection(history_df, category, TRUE,
                       WorkingRows(category, TRUE, recent_group, full_group),
                       start_date, horizon))

NoProjection == [rows |-> <<>>, insights |-> <<>>]

\* the tests of the loop over full_groups on a category with rows:
\* recurring and skipped categories, stale ones and ones without recent
\* rows project nothing
GroupBehavior(history_df, templates, category, full_group, recent_group, start_date, horizon) ==
    IF \E i \in 1..Len(templates) : templates[i].category = category THEN NoProjection
    ELSE IF category \in behavior_skip_categories THEN NoProjection
    ELSE IF start_date - full_group[Len(full_group)].date > Max(behavior_recent_days * 2, 240)
    THEN NoProjection
    ELSE IF recent_group = <<>> /\ category \notin behavior_extended_history_categories
    THEN NoProjection
    ELSE CategoryProjection(history_df, category, recent_group, full_group,
                            start_date, horizon)

\* the body of the loop over full_groups
CategoryBehavior(history_df, windowed, templates, category, start_date, horizon) ==
    IF \A i \in 1..Len(windowed) : windowed[i].category # category THEN NoProjection
    ELSE GroupBehavior(history_df, templates, category,
             SelectSeq(windowed, LAMBDA row : row.category = category),
             SelectSeq(windowed,
                 LAMBDA row : /\ row.category = category
                              /\ row.date >= start_date - behavior_recent_days),
             start_date, horizon)

\* recent_total_abs of a category: the spend of its expenses of the last
\* behavior_recent_total_days days per day of their span, times the horizon
RecentTotalAbs(recent_expenses, horizon) ==
    LET total == RSum(AbsAmounts(recent_expenses))
        span_days == Max(recent_expenses[Len(recent_expenses)].date
                         - recent_expenses[1].date + 1, 1)
    IN IF recent_expenses = <<>> THEN RZero
       ELSE RMul(RDiv(total, RInt(span_days)), RInt(Max(horizon, 1)))

\* total_cap: the larger of the recent spend and the median event times the
\* number of events, times behavior_total_growth_ratio
TotalCap(expenses, recent_total_abs, horizon) ==
    RMul(RMax(RMax(recent_total_abs,
                   RMul(RMedian(AbsAmounts(expenses)),
                        RInt(Max(Min(Len(expenses), horizon), 1)))),
              RInt(1)),
         behavior_total_growth_ratio)

\* the expenses scaled down to the cap, none when the scale is below 35%
ScaledExpenses(expenses, predicted_total, total_cap) ==
    IF ~ RLt(total_cap, predicted_total) THEN expenses
    ELSE IF RLt(RDiv(total_cap, predicted_total), R(35, 100)) THEN <<>>
    ELSE [i \in 1..Len(expenses) |->
             [expenses[i] EXCEPT
                 !.amount = RMul(expenses[i].amount, RDiv(total_cap, predicted_total))]]

\* the expense rows of a category after the cap: dropped when the recent
\* history is too thin or the cap would cut them below 35%, scaled down to
\* the cap when they exceed it
CappedExpenses(expenses, recent_count, recent_total_abs, horizon) ==
    IF recent_count < behavior_min_recent_nonzero
       \/ RLt(recent_total_abs, behavior_min_recent_total)
    THEN <<>>
    ELSE ScaledExpenses(expenses, RAbs(RSum(Amounts(expenses))),
                        TotalCap(expenses, recent_total_abs, horizon))

\* the rows of the group with its expenses replaced by the capped ones
CappedGroup(group, capped) ==
    IF capped = <<>> THEN SelectSeq(group, LAMBDA row : RSign(row.amount) >= 0)
    ELSE [i \in 1..Len(group) |->
             IF RSign(group[i].amount) < 0
             THEN capped[Cardinality({j \in 1..i : RSign(group[j].amount) < 0})]
             ELSE group[i]]

\* the group of a category in variable_df after the cap on its expenses,
\* its rows in their order
AdjustedGroup(group, recent_expenses, horizon) ==
    IF \A i \in 1..Len(group) : RSign(group[i].amount) >= 0 THEN group
    ELSE CappedGroup(group,
             CappedExpenses(SelectSeq(group, LAMBDA row : RSign(row.amount) < 0),
                            Len(recent_expenses),
                            RecentTotalAbs(recent_expenses, horizon), horizon))

\* the groups that stay and the insights of their categories
FilteredOf(projections, adjusted) ==
    [rows |-> Flatten(adjusted),
     insights |-> Flatten([k \in 1..Len(CategoryOrder) |->
                              IF adjusted[k] = <<>> THEN <<>>
                              ELSE projections[k].insights])]

\* the second half of _generate_variable_spending: the cap on the expenses
\* of every group of variable_df
FilteredBehavior(projections, windowed, start_date, horizon) ==
    FilteredOf(projections,
        [k \in 1..Len(CategoryOrder) |->
            AdjustedGroup(projections[k].rows,
                SelectSeq(windowed,
                    LAMBDA row : /\ row.category = CategoryOrder[k]
                                 /\ row.date >= start_date - behavior_recent_total_days
                                 /\ RLt(row.amount, RNeg(Epsilon))),
                horizon)])

\* the rows of history_df of the last behavior_max_history_days days and the
\* projection of every category in them
WindowedBehavior(history_df, windowed, templates, start_date, horizon) ==
    IF windowed = <<>> THEN NoProjection
    ELSE FilteredBehavior([k \in 1..Len(CategoryOrder) |->
                              CategoryBehavior(history_df, windowed, templates,
                                               CategoryOrder[k], start_date, horizon)],
                          windowed, start_date, horizon)

\* _generate_variable_spending(history_df, templates, start_date, horizon,
\* seasonality, category_aliases): the projected rows and their insights
GenerateVariableSpending(history_df, templates, start_date, horizon) ==
    WindowedBehavior(history_df,
        SelectSeq(history_df,
            LAMBDA row : row.date >= start_date - behavior_max_history_days),
        templates, start_date, horizon)

(***************************************************************************)
(* The trend projector (_build_daily_category_series,                      *)
(* _forecast_with_prophet, _snap_category_events,                          *)
(* _generate_statistical_forecast).  The Prophet library is not part of    *)
(* the repository: what a fit predicts is a parameter of the projector.    *)
(***************************************************************************)
min_history_points == 21
min_nonzero_points == 4
statistical_max_history_days == 365
statistical_recent_window_days == 180
statistical_recent_total_days == 120
statistical_min_recent_nonzero == 4
max_statistical_categories == 16

\* min_total_amount = 80.0
min_total_amount == RInt(80)

\* statistical_min_recent_total = 100.0
statistical_min_recent_total == RInt(100)

\* statistical_max_growth_ratio = 1.65
statistical_max_growth_ratio == R(165, 100)

\* statistical_total_growth_ratio = 1.35
statistical_total_growth_ratio == R(135, 100)

\* statistical_floor_ratio = 0.18
statistical_floor_ratio == R(18, 100)

statistical_skip_categories == {"other", "healthcare", "travel", "gifts"}

\* a daily series: the day of its first value and its values, one per day
SeriesOf(first, values) == [first |-> first, values |-> values]

\* series.iloc[-n:]
SeriesTail(series, n) ==
    IF Len(series.values) <= n THEN series
    ELSE SeriesOf(series.first + Len(series.values) - n, LastN(series.values, n))

SeriesAbs(series) == [i \in 1..Len(series.values) |-> RAbs(series.values[i])]

\* (series.abs() > 1e-6).sum()
NonZeroPoints(series) ==
    Cardinality({i \in 1..Len(series.values) : RLt(Epsilon, RAbs(series.values[i]))})

\* resample('D').sum() of the rows of a category, reindexed over every day
\* from its first to its last date and cut to the last
\* statistical_max_history_days days
DailySeries(rows) ==
    SeriesTail(
        SeriesOf(rows[1].date,
                 [k \in 1..(rows[Len(rows)].date - rows[1].date + 1) |->
                     RSum(Amounts(SelectSeq(rows,
                              LAMBDA row : row.date = rows[1].date + k - 1)))]),
        statistical_max_history_days)

\* the test of _build_daily_category_series on a series
SeriesKept(series) ==
    /\ Len(series.values) >= min_history_points
    /\ NonZeroPoints(series) >= min_nonzero_points
    /\ RLe(min_total_amount, RSum(SeriesAbs(series)))

\* series_map.items() sorted by falling absolute total and cut to
\* max_statistical_categories, as positions in CategoryOrder; equal totals
\* keep the order of the categories
RankedCategories(kept, total) ==
    LET rank(k) == Cardinality({j \in kept :
                       \/ RLt(total[k], total[j])
                       \/ (total[j] = total[k] /\ j < k)})
    IN [r \in 1..Min(Cardinality(kept), max_statistical_categories) |->
           CHOOSE k \in kept : rank(k) = r - 1]

\* what the fitted model predicts for a day (yhat): nothing at all, one
\* level on every day, or one level on one day of the week and zero on the
\* others
FitValue(fit, date) ==
    IF fit.kind = "flat" THEN fit.yhat
    ELSE IF Weekday(date) = fit.weekday THEN fit.yhat
    ELSE RZero

\* _forecast_with_prophet(series, start_date, horizon), then
\* forecast_series.where(forecast_series <= 0, -forecast_series.abs()): one
\* value for every day of the horizon, none when the fit fails
ForecastWithProphet(fit, series, start_date, horizon) ==
    LET neg_mass == RAbs(RSum(SelectSeq(series.values, LAMBDA y : RSign(y) < 0)))
        pos_mass == RSum(SelectSeq(series.values, LAMBDA y : RSign(y) > 0))
        is_expense == RLe(RMax(pos_mass, RInt(1)), neg_mass)
    IN IF fit.kind = "none" \/ horizon <= 0 THEN <<>>
       ELSE [k \in 1..horizon |->
                LET yhat == FitValue(fit, start_date + k - 1)
                    aligned == IF is_expense THEN RNeg(RAbs(yhat)) ELSE RMax(yhat, RZero)
                IN [date |-> start_date + k - 1, value |-> RNeg(RAbs(aligned))]]

\* the limits the projected values are held to, from the median, the mean
\* and the 90th percentile of trimmed_abs
ScaleLimits(median_abs, mean_abs, percentile_90, baseline_scale) ==
    [threshold |-> RMax(RMax(R(1, 2), RMul(median_abs, R(15, 100))),
                        RMul(mean_abs, R(1, 10))),
     baseline_scale |-> baseline_scale,
     clamp_limit |-> RMax(baseline_scale,
                          RMin(percentile_90,
                               RMul(baseline_scale, statistical_max_growth_ratio))),
     floor_limit |-> RMax(R(1, 2), RMul(median_abs, statistical_floor_ratio))]

TrimmedLimits(median_abs, mean_abs, percentile_90) ==
    ScaleLimits(median_abs, mean_abs, percentile_90,
                RMax(RMax(median_abs, mean_abs), RInt(1)))

\* trimmed_abs: the values up to the 95th percentile
TrimmedAbs(finite_abs, percentile_95) ==
    SelectSeq(finite_abs, LAMBDA x : RLe(x, percentile_95))

\* the limits from the non-zero absolute values of history_window
TrendLimitsOf(trimmed_abs) ==
    TrimmedLimits(RMedian(trimmed_abs), RMean(trimmed_abs), RPercentile(trimmed_abs, 90))

TrendLimits(finite_abs) ==
    TrendLimitsOf(TrimmedAbs(finite_abs, RPercentile(finite_abs, 95)))

S_trend_forecast == <<" ","t","r","e","n","d"," ","f","o","r","e","c","a","s","t">>

\* the event of one day of the forecast series: none below the threshold or
\* the floor, the value held to the clamp otherwise
AdjustedEvent(history_df, category, limits, date, adjusted_value) ==
    IF RLt(RAbs(adjusted_value), limits.threshold) THEN <<>>
    ELSE IF RLt(RMin(RAbs(adjusted_value), limits.clamp_limit), limits.floor_limit)
    THEN <<>>
    ELSE <<[date |-> date,
            amount |-> IF RSign(adjusted_value) > 0
                       THEN RMin(RAbs(adjusted_value), limits.clamp_limit)
                       ELSE RNeg(RMin(RAbs(adjusted_value), limits.clamp_limit)),
            category |-> category,
            description |-> DisplayName(history_df, category) \o S_trend_forecast,
            source |-> "prophet"]>>

TrendEvent(history_df, category, limits, day) ==
    AdjustedEvent(history_df, category, limits, day.date,
                  SeasonalAdjust(day.value, category, day.date, history_df))

\* the events of a category shrunk to the cap on their total, none when the
\* cap would cut them below 35%
ShrunkEvents(category_events, baseline_scale, recent_total_abs, horizon) ==
    LET predicted_total == RSum(AbsAmounts(category_events))
        baseline_total == RMul(baseline_scale,
                               RInt(Max(Min(Len(category_events), horizon), 1)))
        cap_basis == RMax(RMax(recent_total_abs, baseline_total), RInt(1))
        total_cap == RMul(cap_basis, statistical_total_growth_ratio)
        shrink_factor == RDiv(total_cap, predicted_total)
    IN IF ~ RLt(total_cap, predicted_total) THEN category_events
       ELSE IF RLt(shrink_factor, R(35, 100)) THEN <<>>
       ELSE [i \in 1..Len(category_events) |->
                [category_events[i] EXCEPT
                    !.amount = RMul(category_events[i].amount, shrink_factor)]]

\* value_counts().idxmax() of a key of the days first..last: the most
\* frequent key, the one met first among equals
PreferredKey(first, last, Key(_)) ==
    LET keys == {Key(d) : d \in first..last}
        count == [v \in keys |-> Cardinality({d \in first..last : Key(d) = v})]
        most == {v \in keys : \A w \in keys : count[v] >= count[w]}
    IN Key(SetMin({d \in first..last : Key(d) \in most}))

DayOfMonth(date) == YMD(date).day

\* the date _snap_category_events moves an event to, before the dates in
\* use are avoided: the preferred day of the event's month, then the nearest
\* preferred weekday, held inside [start_ts, end_ts]
SnapCandidate(original, preferred_dom, preferred_weekday, start_ts, end_ts) ==
    LET on_dom == DayNumber(YMD(original).year, YMD(original).month,
                            Min(preferred_dom,
                                DaysInMonth(YMD(original).year, YMD(original).month)))
        weekday_diff == (preferred_weekday - Weekday(on_dom)) % 7
        on_weekday == IF weekday_diff <= 3 THEN on_dom + weekday_diff
                      ELSE on_dom - (7 - weekday_diff)
    IN Min(Max(on_weekday, start_ts), end_ts)

\* while candidate in used_dates and candidate <= end_ts: candidate += 1 day
RECURSIVE FreeDate(_, _, _)
FreeDate(candidate, used_dates, end_ts) ==
    IF candidate \in used_dates /\ candidate <= end_ts
    THEN FreeDate(candidate + 1, used_dates, end_ts)
    ELSE candidate

\* the loop of _snap_category_events
RECURSIVE SnapFrom(_, _, _, _, _, _)
SnapFrom(events, used_dates, preferred_dom, preferred_weekday, start_ts, end_ts) ==
    IF events = <<>> THEN <<>>
    ELSE LET date == FreeDate(SnapCandidate(Head(events).date, preferred_dom,
                                            preferred_weekday, start_ts, end_ts),
                              used_dates, end_ts)
         IN <<[Head(events) EXCEPT !.date = date]>>
            \o SnapFrom(Tail(events), used_dates \cup {date}, preferred_dom,
                        preferred_weekday, start_ts, end_ts)

\* _snap_category_events(events, preferred_dom, preferred_weekday,
\* start_date, horizon) with the preferences of the days of history_window
SnapCategoryEvents(events, history_window, start_date, horizon) ==
    SnapFrom(events, {},
             PreferredKey(history_window.first,
                          history_window.first + Len(history_window.values) - 1,
                          DayOfMonth),
             PreferredKey(history_window.first,
                          history_window.first + Len(history_window.values) - 1,
                          Weekday),
             start_date, start_date + horizon)

\* the events of the days of the forecast series, shrunk and snapped
LimitedEvents(history_df, category, limits, forecast_series, history_window, recent_total_abs, start_date, horizon) ==
    SnapCategoryEvents(
        ShrunkEvents(Flatten([k \in 1..Len(forecast_series) |->
                                 TrendEvent(history_df, category, limits,
                                            forecast_series[k])]),
                     limits.baseline_scale, recent_total_abs, horizon),
        history_window, start_date, horizon)

\* the events of a fitted series of a category with a net outflow
ForecastEventsOf(history_df, category, finite_abs, forecast_series, history_window, recent_total_abs, start_date, horizon) ==
    IF forecast_series = <<>> THEN <<>>
    ELSE IF RLe(RInt(-1), RSum(history_window.values)) THEN <<>>
    ELSE IF finite_abs = <<>> THEN <<>>
    ELSE LimitedEvents(history_df, category, TrendLimits(finite_abs), forecast_series,
                       history_window, recent_total_abs, start_date, horizon)

\* the events of a category that passed the tests on its history
FittedEvents(fit, history_df, category, series, history_window, recent_total_abs, start_date, horizon) ==
    ForecastEventsOf(history_df, category,
        SelectSeq(SeriesAbs(history_window), LAMBDA x : RSign(x) > 0),
        ForecastWithProphet(fit, series, start_date, horizon),
        history_window, recent_total_abs, start_date, horizon)

\* recent_total_abs: the outflow of the days of recent_window per day of
\* their span, times the horizon
RecentOutflow(recent_window, negative, horizon) ==
    RMul(RDiv(RAbs(RSum(SelectSeq(recent_window.values, LAMBDA y : RSign(y) < 0))),
              RInt(Max(SetMax(negative) - SetMin(negative) + 1, 1))),
         RInt(Max(horizon, 1)))

\* the test on recent_total_abs
OutflowEvents(fit, history_df, category, series, history_window, recent_total_abs, start_date, horizon) ==
    IF RLt(recent_total_abs, statistical_min_recent_total) THEN <<>>
    ELSE FittedEvents(fit, history_df, category, series, history_window,
                      recent_total_abs, start_date, horizon)

\* the tests of the loop of _generate_statistical_forecast on the last
\* statistical_recent_total_days days of history_window
NegativeEvents(fit, history_df, category, series, history_window, recent_window, negative, start_date, horizon) ==
    IF NonZeroPoints(recent_window) < statistical_min_recent_nonzero THEN <<>>
    ELSE IF negative = {} THEN <<>>
    ELSE OutflowEvents(fit, history_df, category, series, history_window,
                       RecentOutflow(recent_window, negative, horizon),
                       start_date, horizon)

RecentEvents(fit, history_df, category, series, history_window, recent_window, start_date, horizon) ==
    NegativeEvents(fit, history_df, category, series, history_window, recent_window,
        {i \in 1..Len(recent_window.values) : RSign(recent_window.values[i]) < 0},
        start_date, horizon)

\* the body of the loop of _generate_statistical_forecast for a category
CategoryTrend(fit, history_df, recurring_categories, category, series, history_window, start_date, horizon) ==
    IF category \in recurring_categories THEN <<>>
    ELSE IF category \in statistical_skip_categories THEN <<>>
    ELSE IF RLt(RSum(SeriesAbs(history_window)), min_total_amount) THEN <<>>
    ELSE RecentEvents(fit, history_df, category, series, history_window,
                      SeriesTail(history_window, statistical_recent_total_days),
                      start_date, horizon)

\* the insight of a category with events
TrendInsight(category, events) ==
    IF events = <<>> THEN <<>>
    ELSE <<[category |-> category, type |-> "expense", pattern |-> "prophet",
            source |-> "prophet"]>>

\* the events and insights of the ranked categories, the events in date
\* order
TrendsOf(ranked, events) ==
    [rows |-> SortByDate(Flatten(events)),
     insights |-> Flatten([r \in 1..Len(ranked) |->
                              TrendInsight(CategoryOrder[ranked[r]], events[r])])]

\* the loop of _generate_statistical_forecast over the ranked series
RankedTrends(fit, history_df, recurring_categories, ranked, Series, start_date, horizon) ==
    TrendsOf(ranked,
        [r \in 1..Len(ranked) |->
            CategoryTrend(fit, history_df, recurring_categories,
                          CategoryOrder[ranked[r]], Series[ranked[r]],
                          SeriesTail(Series[ranked[r]], statistical_recent_window_days),
                          start_date, horizon)])

\* series_map: the daily series of the categories that pass the tests
DailyCategorySeries(history_df) ==
    [k \in 1..Len(CategoryOrder) |->
        LET rows == SelectSeq(history_df, LAMBDA row : row.category = CategoryOrder[k])
        IN IF rows = <<>> THEN SeriesOf(NoDate, <<>>) ELSE DailySeries(rows)]

\* the loop over the ranked series
SeriesTrends(fit, history_df, recurring_categories, Series, start_date, horizon) ==
    RankedTrends(fit, history_df, recurring_categories,
        RankedCategories({k \in 1..Len(CategoryOrder) : SeriesKept(Series[k])},
                         [k \in 1..Len(CategoryOrder) |-> RSum(SeriesAbs(Series[k]))]),
        Series, start_date, horizon)

\* _generate_statistical_forecast(history_df, recurring_categories,
\* start_date, horizon, seasonality, category_aliases) with the library
\* loaded and fitting as `fit`, or not loaded (Prophet is None)
GenerateStatisticalForecast(Prophet, fit, history_df, recurring_categories, start_date, horizon) ==
    IF history_df = <<>> \/ horizon <= 0 \/ Prophet = "None" THEN NoProjection
    ELSE SeriesTrends(fit, history_df, recurring_categories, DailyCategorySeries(history_df),
                      start_date, horizon)

(***************************************************************************)
(* The composer (run_forecast)                                             *)
(***************************************************************************)
S_Balance_projection == <<"B","a","l","a","n","c","e"," ","p","r","o","j","e","c","t","i","o","n">>

\* mode_map.get((method or "prophet").lower(), "prophet")
NormalizedMode(method) ==
    IF method \in {"behavior", "recurring", "baseline", "hybrid"} THEN method
    ELSE "prophet"

\* start_date = max(today, last_hist + 1 day) over the entries that carry a
\* date, today when there is none
StartDate(today, transactions) ==
    LET history_dates == {transactions[i].date : i \in 1..Len(transactions)} \ {NoDate}
    IN IF history_dates = {} THEN today
       ELSE Max(today, SetMax(history_dates) + 1)

\* the historical rows of all_transactions
HistoricalRows(tx_df) ==
    [i \in 1..Len(tx_df) |->
        [date |-> tx_df[i].date,
         amount |-> tx_df[i].amount,
         category |-> tx_df[i].category,
         description |-> tx_df[i].description,
         type |-> "historical",
         projection_source |-> "none"]]

\* the scheduled rows of all_transactions, categorised on the way in
ScheduledRows(cache, sched_df) ==
    [i \in 1..Len(sched_df) |->
        [date |-> sched_df[i].date,
         amount |-> sched_df[i].amount,
         category |-> CategorizeTransaction(cache, sched_df[i].description,
                                            sched_df[i].amount),
         description |-> sched_df[i].description,
         type |-> "scheduled",
         projection_source |-> "none"]]

\* the recurring rows of all_transactions
RecurringRows(recurring_df) ==
    [i \in 1..Len(recurring_df) |->
        [date |-> recurring_df[i].date,
         amount |-> recurring_df[i].amount,
         category |-> recurring_df[i].category,
         description |-> recurring_df[i].description,
         type |-> "forecast",
         projection_source |-> recurring_df[i].source]]

\* combined_df['balance'] = opening_balance + combined_df['amount'].cumsum()
RECURSIVE WithBalance(_, _)
WithBalance(rows, balance) ==
    IF rows = <<>> THEN <<>>
    ELSE LET next == RAdd(balance, Head(rows).amount)
         IN <<[date |-> Head(rows).date,
               amount |-> Head(rows).amount,
               category |-> Head(rows).category,
               description |-> Head(rows).description,
               type |-> Head(rows).type,
               projection_source |-> Head(rows).projection_source,
               balance |-> next]>>
            \o WithBalance(Tail(rows), next)

\* combined_df.groupby('date').agg({'amount': 'sum', 'balance': 'last'}):
\* one entry per date carried by a row, in date order; rows without a date
\* belong to no group
DailySummary(combined_df) ==
    LET dates == SetToSortedSeq({combined_df[i].date : i \in 1..Len(combined_df)}
                                \ {NoDate})
    IN [k \in 1..Len(dates) |->
           LET group == SelectSeq(combined_df, LAMBDA row : row.date = dates[k])
           IN [date |-> dates[k],
               amount |-> RSum(Amounts(group)),
               balance |-> group[Len(group)].balance]]

\* the end of run_forecast: the daily series grouped from combined_df and
\* the values the call hands back
ForecastResponse(cache, ledger, start_date, history_df, templates, opening_balance, any_transactions, combined_df, capped, notes) ==
    [alias_cache |-> cache,
     raised |-> "none",
     warnings |-> notes.warnings,
     habits |-> notes.habits,
     capped |-> capped,
     ledger |-> ledger,
     start_date |-> start_date,
     history_df |-> history_df,
     templates |-> templates,
     forecast |-> IF any_transactions THEN DailySummary(combined_df)
                  ELSE <<[date |-> start_date, amount |-> RZero,
                          balance |-> opening_balance]>>,
     transactions |-> combined_df]

\* combined_df: all_transactions sorted, reconciled, sorted again and given a
\* running balance, or the single opening row when there are none
ForecastReconciled(cache, ledger, start_date, history_df, templates, opening_balance, any_transactions, reconciled, notes) ==
    ForecastResponse(cache, ledger, start_date, history_df, templates, opening_balance,
        any_transactions,
        IF any_transactions
        THEN WithBalance(SortByDate(reconciled.combined_df), opening_balance)
        ELSE <<[date |-> start_date, amount |-> RZero, balance |-> opening_balance,
                category |-> "other", description |-> S_Balance_projection,
                type |-> "forecast", projection_source |-> "none"]>>,
        reconciled.capped, notes)

\* all_transactions sorted by date and handed to _apply_category_targets
ForecastCombined(cache, ledger, start_date, history_df, templates, opening_balance, horizon, all_transactions, notes) ==
    ForecastReconciled(cache, ledger, start_date, history_df, templates, opening_balance,
        all_transactions # <<>>,
        IF all_transactions # <<>>
        THEN ReconcileTargets(SortByDate(all_transactions), history_df, start_date, horizon)
        ELSE [combined_df |-> <<>>, capped |-> {}],
        notes)

\* the behavior projection left as it is beside the trend projection
VariableUnfiltered(variable, prophet) == variable

\* the behavior rows and insights of the categories the trend projector
\* did not cover, when both projected something
VariableKept(variable, prophet) ==
    LET stat_categories == {prophet.rows[i].category : i \in 1..Len(prophet.rows)}
    IN IF variable.rows = <<>> \/ prophet.rows = <<>> THEN variable
       ELSE [rows |-> SelectSeq(variable.rows,
                          LAMBDA row : row.category \notin stat_categories),
             insights |-> SelectSeq(variable.insights,
                              LAMBDA ins : ins.category \notin stat_categories)]

\* all_transactions: the historical, scheduled and projected rows, and
\* habit_insights = recurring_insights + variable_insights + prophet_insights
ForecastProjected(cache, ledger, start_date, tx_df, history_df, templates, opening_balance, scheduled, horizon, recurring, variable, prophet, warnings) ==
    ForecastCombined(cache, ledger, start_date, history_df, templates,
        opening_balance, horizon,
        HistoricalRows(tx_df)
        \o ScheduledRows(cache, ExpandScheduled(scheduled, start_date, horizon))
        \o RecurringRows(recurring.rows)
        \o RecurringRows(variable.rows)
        \o RecurringRows(prophet.rows),
        [habits |-> recurring.insights \o variable.insights \o prophet.insights,
         warnings |-> warnings])

\* the behavior projection of the modes that allow it, without the
\* categories the trend projector covered
ForecastTrend(cache, ledger, start_date, tx_df, history_df, templates, opening_balance, scheduled, horizon, mode, recurring, prophet) ==
    ForecastProjected(cache, ledger, start_date, tx_df, history_df, templates,
        opening_balance, scheduled, horizon, recurring,
        IF ~ mode.allow_behavior THEN NoProjection
        ELSE VariableKept(
                 GenerateVariableSpending(history_df, templates, start_date, horizon),
                 prophet),
        prophet, mode.warnings)

\* the trend projection of the modes that allow it, for the categories
\* without recurring events
ForecastRecurring(cache, ledger, start_date, tx_df, history_df, templates, opening_balance, scheduled, horizon, mode, recurring) ==
    ForecastTrend(cache, ledger, start_date, tx_df, history_df, templates,
        opening_balance, scheduled, horizon, mode, recurring,
        IF mode.allow_prophet
        THEN GenerateStatisticalForecast(mode.Prophet, mode.fit, history_df,
                 {recurring.rows[i].category : i \in 1..Len(recurring.rows)},
                 start_date, horizon)
        ELSE NoProjection)

\* the recurring projection of the modes that allow it
ForecastTemplates(cache, ledger, start_date, tx_df, history_df, opening_balance, scheduled, horizon, mode, recurring_templates) ==
    ForecastRecurring(cache, ledger, start_date, tx_df, history_df,
        IF mode.allow_recurring THEN recurring_templates ELSE <<>>,
        opening_balance, scheduled, horizon, mode,
        IF mode.allow_recurring
        THEN RecurringProjection(cache, recurring_templates, start_date, horizon,
                                 history_df, scheduled)
        ELSE NoProjection)

\* history_df and the recurring templates detected in it and augmented
ForecastHistory(cache, ledger, start_date, tx_df, history_df, opening_balance, scheduled, horizon, mode) ==
    ForecastTemplates(cache, ledger, start_date, tx_df, history_df, opening_balance,
        scheduled, horizon, mode,
        AugmentRecurringTemplates(history_df, DetectRecurringTransactions(history_df),
                                  start_date))

\* start_date and the baseline frame of the sanitized ledger
ForecastLedger(cache, ledger, start_date, tx_df, opening_balance, scheduled, horizon, mode) ==
    ForecastHistory(cache, ledger, start_date, tx_df, HistoryBefore(tx_df, start_date),
                    opening_balance, scheduled, horizon, mode)

\* what a call that raised leaves: the alias cache the sanitizer filled and
\* no response
Raised(cache, error) ==
    [alias_cache |-> cache, raised |-> error, warnings |-> <<>>, habits |-> <<>>,
     capped |-> {}, ledger |-> <<>>, start_date |-> NoDate, history_df |-> <<>>,
     templates |-> <<>>, forecast |-> <<>>, transactions |-> <<>>]

\* allow_recurring, allow_behavior and allow_prophet of the mode; without
\* the library hybrid warns and goes on without the trend projector
ModeFlags(Prophet, fit, normalized_mode) ==
    [allow_recurring |-> normalized_mode \in {"prophet", "behavior", "recurring", "hybrid"},
     allow_behavior |-> normalized_mode \in {"behavior", "hybrid"},
     allow_prophet |-> normalized_mode \in {"prophet", "hybrid"} /\ Prophet # "None",
     Prophet |-> Prophet,
     fit |-> fit,
     warnings |-> IF normalized_mode = "hybrid" /\ Prophet = "None"
                  THEN <<"RuntimeWarning">> ELSE <<>>]

\* a composer that goes on without the library in every mode
ForecastSanitizedOn(Prophet, fit, sanitized, opening_balance, scheduled, horizon, normalized_mode, today) ==
    ForecastLedger(sanitized.cache, sanitized.cleaned,
                   StartDate(today, sanitized.cleaned),
                   GenerateBaseline(sanitized.cleaned),
                   opening_balance, scheduled, horizon,
                   ModeFlags(Prophet, fit, normalized_mode))

\* the sanitized ledger and the alias cache the sanitizer leaves; a mode
\* that needs the library raises when it is not loaded
ForecastSanitized(Prophet, fit, sanitized, opening_balance, scheduled, horizon, normalized_mode, today) ==
    IF normalized_mode = "prophet" /\ Prophet = "None"
    THEN Raised(sanitized.cache, "RuntimeError")
    ELSE ForecastLedger(sanitized.cache, sanitized.cleaned,
                        StartDate(today, sanitized.cleaned),
                        GenerateBaseline(sanitized.cleaned),
                        opening_balance, scheduled, horizon,
                        ModeFlags(Prophet, fit, normalized_mode))

\* run_forecast(opening_balance, transactions, scheduled, horizon, method,
\* as_of_date) in a process where the module global Prophet is the library
\* or None and a fit of the library predicts `fit`
RunForecastWith(Prophet, fit, alias_cache, opening_balance, transactions, scheduled, horizon, method, today) ==
    ForecastSanitized(Prophet, fit, SanitizeTransactions(alias_cache, transactions),
                      opening_balance, scheduled, horizon, NormalizedMode(method), today)

\* a fit that predicts nothing
NoFit == [kind |-> "none", yhat |-> RZero, weekday |-> NoWeekday]

\* run_forecast(opening_balance, transactions, scheduled, horizon, method,
\* as_of_date) without the library: the response's daily series and
\* transactions, with the intermediate values of the call and the alias
\* cache it leaves behind
RunForecast(alias_cache, opening_balance, transactions, scheduled, horizon, method, today) ==
    RunForecastWith("None", NoFit, alias_cache, opening_balance, transactions,
                    scheduled, horizon, method, today)

(***************************************************************************)
(* Requests.  A request's ledger is a selection of at most MaxTx entries   *)
(* of a statement, kept in statement order; every entry carries a category *)
(* field outside the vocabulary, which the normalizer has to overwrite.    *)
(***************************************************************************)
MaxTx == 3

Tx(date, description, amount) ==
    [date |-> date, description |-> description, amount |-> RInt(amount),
     category |-> "misc"]

TxPool ==
    <<Tx(1, S_Netflix, -50),
      Tx(1, S_NETFLIX_PAYMENT, -50),
      Tx(NoDate, S_Acme, -50),
      Tx(8, S_Netflix, -50),
      Tx(8, S_Acme, 100),
      Tx(8, S_Online_Transfer, -50),
      Tx(12, S_Netflix, 100),
      Tx(15, S_Netflix, -50),
      Tx(15, S_Payroll, 100)>>

Selection(chosen) ==
    LET order == SetToSortedSeq(chosen)
    IN [k \in 1..Len(order) |-> TxPool[order[k]]]

TxLists ==
    {Selection(chosen) : chosen \in {c \in SUBSET (1..Len(TxPool)) : Cardinality(c) <= MaxTx}}

ScheduledLists ==
    {<<>>,
     <<[pattern |-> "weekly", amount |-> RInt(-50), description |-> S_Online_Transfer,
        weekday |-> 2, day |-> 1, date |-> NoDate]>>}

Horizons == {1, 7, 30}

Methods == {"recurring", "baseline"}

AsOfDates == {10, 22}

opening_balance == RInt(1000)

NoRequest ==
    [transactions |-> <<>>, scheduled |-> <<>>, horizon |-> 0, method |-> "none",
     today |-> NoDate]

NoResponse ==
    [ledger |-> <<>>, start_date |-> NoDate, history_df |-> <<>>,
     forecast |-> <<>>, transactions |-> <<>>, capped |-> {},
     raised |-> "none", warnings |-> <<>>, habits |-> <<>>, templates |-> <<>>]

\* what a call of run_forecast leaves for the caller to look at
Response(r) ==
    [ledger |-> r.ledger, start_date |-> r.start_date, history_df |-> r.history_df,
     forecast |-> r.forecast, transactions |-> r.transactions, capped |-> r.capped,
     raised |-> r.raised, warnings |-> r.warnings, habits |-> r.habits,
     templates |-> r.templates]

\* the /forecast requests served in parallel by the one engine of app.py
Requests == {1, 2}

MaxParallelTx == 1

ParallelLists == {txs \in TxLists : Len(txs) <= MaxParallelTx}

\* a request at the head of the loop of _sanitize_transactions
NewThread(transactions) ==
    [transactions |-> transactions, idx |-> 1,
     pc |-> IF transactions = <<>> THEN "done" ELSE "check",
     seen |-> {}, cleaned |-> <<>>, category |-> "other"]

(***************************************************************************)
(* The engine as a state machine: one ForecastEngine, its alias cache, and *)
(* the calls made on it one after the other                                *)
(***************************************************************************)
VARIABLES alias_cache, prev_cache, phase, request, response, fresh, ledger, ledger2,
          threads, writes, probe

vars == <<alias_cache, prev_cache, phase, request, response, fresh, ledger, ledger2,
          threads, writes, probe>>

calls == <<prev_cache, phase, request, response, fresh, ledger, ledger2, probe>>

\* no single function of the engine is being exercised on its own
NoProbe == [op |-> "none"]

Init ==
    /\ alias_cache = EmptyCache
    /\ prev_cache = EmptyCache
    /\ phase = "idle"
    /\ request = NoRequest
    /\ response = NoResponse
    /\ fresh = NoResponse
    /\ ledger = <<>>
    /\ ledger2 = <<>>
    /\ threads = [r \in Requests |-> NewThread(<<>>)]
    /\ writes = {}
    /\ probe = NoProbe

\* engine.run_forecast(...) on the shared engine; fresh is the same call on
\* an engine whose alias cache is empty
RunForecastCall ==
    /\ phase = "idle"
    /\ \E transactions \in TxLists, scheduled \in ScheduledLists,
          horizon \in Horizons, method \in Methods, today \in AsOfDates :
          \* the call on this engine and the same call on a fresh engine
          \E run \in {[cache \in {alias_cache, EmptyCache} |->
                         RunForecast(cache, opening_balance, transactions,
                                     scheduled, horizon, method, today)]} :
              /\ request' = [transactions |-> transactions, scheduled |-> scheduled,
                             horizon |-> horizon, method |-> method, today |-> today]
              /\ response' = Response(run[alias_cache])
              /\ fresh' = Response(run[EmptyCache])
              /\ alias_cache' = run[alias_cache].alias_cache
    /\ prev_cache' = alias_cache
    /\ phase' = "responded"
    /\ UNCHANGED <<ledger, ledger2>>
    /\ UNCHANGED <<threads, writes, probe>>

\* engine._sanitize_transactions(transactions) called directly
SanitizeCall ==
    /\ phase = "idle"
    /\ \E transactions \in TxLists :
          \E s \in {SanitizeTransactions(alias_cache, transactions)} :
              /\ request' = [NoRequest EXCEPT !.transactions = transactions]
              /\ ledger' = s.cleaned
              /\ alias_cache' = s.cache
    /\ prev_cache' = alias_cache
    /\ phase' = "sanitized"
    /\ UNCHANGED <<response, fresh, ledger2>>
    /\ UNCHANGED <<threads, writes, probe>>

\* engine._sanitize_transactions applied to its own output
SanitizeAgain ==
    /\ phase = "sanitized"
    /\ \E s \in {SanitizeTransactions(alias_cache, ledger)} :
          /\ ledger2' = s.cleaned
          /\ alias_cache' = s.cache
    /\ prev_cache' = alias_cache
    /\ phase' = "resanitized"
    /\ UNCHANGED <<request, response, fresh, ledger>>
    /\ UNCHANGED <<threads, writes, probe>>

\* the caller is done with the result; the engine and its cache live on
Return ==
    /\ phase # "idle"
    /\ phase' = "idle"
    /\ request' = NoRequest
    /\ response' = NoResponse
    /\ fresh' = NoResponse
    /\ ledger' = <<>>
    /\ ledger2' = <<>>
    /\ prev_cache' = alias_cache
    /\ UNCHANGED alias_cache
    /\ UNCHANGED <<threads, writes, probe>>

Next == RunForecastCall \/ SanitizeCall \/ SanitizeAgain \/ Return

Spec == Init /\ [][Next]_vars

(***************************************************************************)
(* Properties                                                              *)
(***************************************************************************)
\* C1: in every run_forecast output, each entry of the daily forecast series
\* has balance = opening_balance + the sum of the amounts of all composed
\* events dated on or before that day, and the last entry's balance is
\* opening_balance + the sum of the amounts of all composed events
C1_BalanceContinuity ==
    phase = "responded" =>
        LET rows == response.transactions
            series == response.forecast
            UpTo(day) == SelectSeq(rows, LAMBDA row : IsDated(row) /\ row.date <= day)
        IN /\ \A k \in 1..Len(series) :
                  series[k].balance =
                      RAdd(opening_balance, RSum(Amounts(UpTo(series[k].date))))
           /\ series # <<>> =>
                  series[Len(series)].balance =
                      RAdd(opening_balance, RSum(Amounts(rows)))

\* C2: no event of type forecast in the run_forecast output is dated outside
\* the half-open window [start_date, start_date + horizon); none is dated
\* exactly start_date + horizon
C2_HorizonContainment ==
    phase = "responded" =>
        \A i \in 1..Len(response.transactions) :
            LET row == response.transactions[i]
            IN row.type = "forecast" =>
                   /\ response.start_date <= row.date
                   /\ row.date < response.start_date + request.horizon

\* C3: for an input transaction whose description is an internal transfer
\* (transfer regex without whitelist phrase, or blacklist phrase) no event of
\* the run_forecast output, historical, scheduled or forecast, carries that
\* description; 'Payroll Direct Deposit' is retained and categorized income
C3_TransferSuppression ==
    phase = "responded" =>
        \A k \in 1..Len(request.transactions) :
            LET description == request.transactions[k].description
                carrying == SelectSeq(response.transactions,
                                LAMBDA row : row.description = description)
            IN /\ IsInternalTransfer(description) => carrying = <<>>
               /\ description = S_Payroll =>
                      /\ carrying # <<>>
                      /\ \A i \in 1..Len(carrying) : carrying[i].category = "income"

\* C4: every transaction of the sanitized ledger and every event of the
\* run_forecast output has one category, a member of the 20-element
\* vocabulary, whatever category field the input carried and whatever the
\* alias cache holds
C4_CategoryVocabulary ==
    /\ \A i \in 1..Len(ledger) : ledger[i].category \in Categories
    /\ \A i \in 1..Len(ledger2) : ledger2[i].category \in Categories
    /\ \A i \in 1..Len(response.ledger) : response.ledger[i].category \in Categories
    /\ \A i \in 1..Len(response.transactions) :
           response.transactions[i].category \in Categories

\* a response computed over a warmed alias cache from a ledger whose input
\* category fields are outside the vocabulary, with historical, scheduled,
\* recurring and reconciliation events in it
C4_Witness ==
    /\ phase = "responded"
    /\ prev_cache # EmptyCache
    /\ \A k \in 1..Len(request.transactions) :
           request.transactions[k].category \notin Categories
    /\ response.ledger # <<>>
    /\ \A t \in {"historical", "scheduled", "forecast"} :
           \E i \in 1..Len(response.transactions) : response.transactions[i].type = t
    /\ \A s \in {"recurring", "reconciliation"} :
           \E i \in 1..Len(response.transactions) :
               response.transactions[i].projection_source = s

\* C5: after any sequence of run_forecast / _sanitize_transactions calls on
\* one engine, every transaction or event of the output whose category is
\* income has amount >= 0
C5_SignConsistency ==
    LET NonNegativeIncome(rows) ==
            \A i \in 1..Len(rows) :
                rows[i].category = "income" => RSign(rows[i].amount) >= 0
    IN /\ NonNegativeIncome(ledger)
       /\ NonNegativeIncome(ledger2)
       /\ NonNegativeIncome(response.ledger)
       /\ NonNegativeIncome(response.transactions)

\* C6: when the alias cache is consulted for a transaction with amount > 0
\* and the cached category of its normalized description is not income, the
\* transaction is re-routed to income, on the read path of
\* _sanitize_transactions as on that of _categorize_transaction
C6_PositiveReroute ==
    LET Rerouted(cache, rows) ==
            \A i \in 1..Len(rows) :
                LET key == Normalized(rows[i].description)
                IN (/\ RSign(rows[i].amount) > 0
                    /\ key \in DOMAIN cache
                    /\ cache[key] # "income") => rows[i].category = "income"
    IN /\ phase = "sanitized" => Rerouted(prev_cache, ledger)
       /\ phase = "resanitized" => Rerouted(prev_cache, ledger2)
       /\ phase = "responded" =>
              /\ Rerouted(prev_cache, response.ledger)
              /\ Rerouted(alias_cache,
                          SelectSeq(response.transactions,
                                    LAMBDA row : row.type = "scheduled"))

\* C7: _sanitize_transactions applied to its own output on the same engine
\* returns the same entries in the same order with the same amounts,
\* descriptions and categories
C7_SanitizeIdempotent == phase = "resanitized" => ledger2 = ledger

\* C8: run_forecast on an engine whose alias cache was filled by earlier
\* calls returns what run_forecast returns for the same input on an empty
\* cache; the category of a (description, amount) pair does not depend on
\* the transactions processed before it
C8_CacheIndependence ==
    phase = "responded" =>
        /\ response.forecast = fresh.forecast
        /\ response.transactions = fresh.transactions

\* C10: start_date = max(today, last_history_date + 1 day), the latest date
\* being that of the sanitized ledger; every historical transaction is dated
\* strictly before start_date and the history the projectors use is the
\* whole sanitized ledger
C10_StartDate ==
    phase = "responded" =>
        LET dates == {response.ledger[i].date : i \in 1..Len(response.ledger)} \ {NoDate}
        IN /\ response.start_date =
                  IF dates = {} THEN request.today
                  ELSE Max(request.today, SetMax(dates) + 1)
           /\ \A i \in 1..Len(response.transactions) :
                  LET row == response.transactions[i]
                  IN row.type = "historical" =>
                         IsDated(row) /\ row.date < response.start_date
           /\ Len(response.history_df) = Len(response.ledger)
           /\ \A i \in 1..Len(response.ledger) :
                  \E j \in 1..Len(response.history_df) :
                      response.history_df[j] = response.ledger[i]

\* the sum of the amounts of the category's forecast rows of a response
ForecastSum(r, category) ==
    RSum(Amounts(SelectSeq(r.transactions,
        LAMBDA row : ForecastMask(row, r.start_date) /\ row.category = category)))

\* the target the reconciliation works with is large enough to be enforced
EnforcedTarget(r, category, horizon) ==
    LET target == TargetTotal(r.history_df, category, r.start_date, horizon)
    IN /\ target # None
       /\ RLe(reconciliation_categories[category].min_abs, RAbs(target[1]))

\* the category's forecast sum has the target's sign and at least
\* satisfied_ratio of its magnitude
TargetSatisfied(r, category, horizon) ==
    LET target == TargetTotal(r.history_df, category, r.start_date, horizon)[1]
        total == ForecastSum(r, category)
    IN /\ RSign(total) * RSign(target) > 0
       /\ RLe(RMul(RAbs(target), reconciliation_categories[category].satisfied_ratio),
              RAbs(total))

\* C12: after run_forecast every reconciliation category whose target is at
\* least min_abs in magnitude has a forecast sum of the target's sign and of
\* at least satisfied_ratio of its magnitude, or its injection was capped
\* and a warning emitted
C12_ReconciliationSatisfaction ==
    phase = "responded" =>
        \A category \in DOMAIN reconciliation_categories :
            EnforcedTarget(response, category, request.horizon) =>
                \/ TargetSatisfied(response, category, request.horizon)
                \/ category \in response.capped

\* C13: with no transactions and no scheduled events the forecast series has
\* one entry for each of the horizon days from start_date on, each with
\* amount 0 and the opening balance
C13_EmptyHistoryFlat ==
    (phase = "responded" /\ request.transactions = <<>> /\ request.scheduled = <<>>) =>
        /\ Len(response.forecast) = request.horizon
        /\ \A k \in 1..Len(response.forecast) :
               response.forecast[k] = [date |-> response.start_date + k - 1,
                                       amount |-> RZero,
                                       balance |-> opening_balance]

\* C14: with horizon = 1 the forecast daily summary has exactly one entry,
\* whatever the history and the scheduled events
C14_SingleEntryHorizonOne ==
    (phase = "responded" /\ request.horizon = 1) => Len(response.forecast) = 1

(***************************************************************************)
(* Parallel requests: every /forecast request runs the loop of             *)
(* _sanitize_transactions over the shared alias cache, and the threads     *)
(* interleave between the membership test, the categorization and the      *)
(* write                                                                   *)
(***************************************************************************)
ParallelInit ==
    /\ alias_cache = EmptyCache
    /\ prev_cache = EmptyCache
    /\ phase = "idle"
    /\ request = NoRequest
    /\ response = NoResponse
    /\ fresh = NoResponse
    /\ ledger = <<>>
    /\ ledger2 = <<>>
    /\ threads \in [Requests -> {NewThread(txs) : txs \in ParallelLists}]
    /\ writes = {}
    /\ probe = NoProbe

\* the entry a thread is at, its stripped description and its cache key
ThreadEntry(r) == threads[r].transactions[threads[r].idx]

ThreadDescription(r) == Strip(ThreadEntry(r).description)

ThreadKey(r) == Normalized(ThreadDescription(r))

\* the thread moves on to its next entry
Advance(thread) ==
    [thread EXCEPT !.idx = thread.idx + 1,
                   !.pc = IF thread.idx + 1 > Len(thread.transactions)
                          THEN "done" ELSE "check"]

\* lines 319-349: the transfer and duplicate tests, then the membership
\* test on the alias cache and, on a hit, the read
CheckCache(r) ==
    /\ threads[r].pc = "check"
    /\ LET description == ThreadDescription(r)
           normalized_desc == ThreadKey(r)
           desc_key == IF normalized_desc # <<>> THEN normalized_desc
                       ELSE Lower(description)
           key == <<ThreadEntry(r).date, Round2(ThreadEntry(r).amount), desc_key>>
       IN IF IsTransfer(description) \/ key \in threads[r].seen
          THEN threads' = [threads EXCEPT ![r] = Advance(threads[r])]
          ELSE IF normalized_desc # <<>> /\ normalized_desc \in DOMAIN alias_cache
          THEN threads' = [threads EXCEPT ![r].seen = @ \cup {key},
                                          ![r].category = alias_cache[normalized_desc],
                                          ![r].pc = "write"]
          ELSE threads' = [threads EXCEPT ![r].seen = @ \cup {key},
                                          ![r].pc = "categorize"]
    /\ UNCHANGED <<alias_cache, writes, calls>>

\* line 351: _categorize_transaction, which looks the cache up once more
Categorize(r) ==
    /\ threads[r].pc = "categorize"
    /\ threads' = [threads EXCEPT
                      ![r].category = CategorizeTransaction(alias_cache,
                                          ThreadDescription(r), ThreadEntry(r).amount),
                      ![r].pc = "write"]
    /\ UNCHANGED <<alias_cache, writes, calls>>

\* lines 353-357: the write to the alias cache and the append to cleaned
WriteCache(r) ==
    /\ threads[r].pc = "write"
    /\ LET category == threads[r].category
           normalized_desc == ThreadKey(r)
           written == normalized_desc # <<>> /\ category # "other"
       IN /\ alias_cache' = SanitizeCacheWrite(alias_cache, normalized_desc, category)
          /\ writes' = IF written
                       THEN writes \cup {[request |-> r, key |-> normalized_desc,
                                          category |-> category]}
                       ELSE writes
          /\ threads' = [threads EXCEPT ![r] =
                            Advance([threads[r] EXCEPT !.cleaned =
                                Append(@, NormalizedEntry(ThreadEntry(r),
                                              ThreadDescription(r), category))])]
    /\ UNCHANGED calls

ParallelNext == \E r \in Requests : CheckCache(r) \/ Categorize(r) \/ WriteCache(r)

ParallelSpec == ParallelInit /\ [][ParallelNext]_vars

\* C9: with several /forecast requests in parallel over the shared engine
\* the alias cache only grows and holds only non-'other' categories, two
\* requests that write the same normalized description write the same
\* category, and the final cache does not depend on the interleaving: it is
\* the cache the requests leave when they run one after the other
C9_ParallelCache ==
    /\ [][\A key \in DOMAIN alias_cache : key \in DOMAIN alias_cache']_vars
    /\ [](\A key \in DOMAIN alias_cache : alias_cache[key] # "other")
    /\ [](\A w1 \in writes, w2 \in writes :
              w1.key = w2.key => w1.category = w2.category)
    /\ []((\A r \in Requests : threads[r].pc = "done") =>
              alias_cache =
                  SanitizeTransactions(
                      SanitizeTransactions(EmptyCache, threads[1].transactions).cache,
                      threads[2].transactions).cache)

(***************************************************************************)
(* The categorizer on its own: _categorize_transaction called on an engine *)
(* whose alias cache is empty, with a negative amount and a description    *)
(* made of keywords of several families                                    *)
(***************************************************************************)
\* the order in which _categorize_transaction tests its keyword families
FamilyOrder ==
    <<"income", "rent", "mortgage", "utilities", "internet", "phone", "insurance",
      "car_payment", "subscriptions", "gas", "groceries", "dining", "entertainment",
      "gifts", "travel", "shopping", "bank_fee", "healthcare">>

FamilyKeywords ==
    [income |-> income_keywords, rent |-> rent_keywords, mortgage |-> mortgage_keywords,
     utilities |-> utilities_keywords, internet |-> internet_keywords,
     phone |-> phone_keywords, insurance |-> insurance_keywords,
     car_payment |-> car_payment_keywords, subscriptions |-> subscription_keywords,
     gas |-> gas_keywords, groceries |-> grocery_keywords, dining |-> dining_keywords,
     entertainment |-> entertainment_keywords, gifts |-> gift_keywords,
     travel |-> travel_keywords, shopping |-> shopping_keywords,
     bank_fee |-> bank_fee_keywords, healthcare |-> healthcare_keywords]

\* how many families a probed description takes its keywords from
MaxFamilies == 2

\* the family positions a description draws its keywords from, in the order
\* they appear in the description
FamilyChoices ==
    {seq \in UNION {[1..n -> 1..Len(FamilyOrder)] : n \in 2..MaxFamilies} :
        \A i, j \in 1..Len(seq) : i # j => seq[i] # seq[j]}

\* the description made of the first keyword of each chosen family
KeywordDescription(choice, suffix) ==
    Join([k \in 1..Len(choice) |-> FamilyKeywords[FamilyOrder[choice[k]]][1]]) \o suffix

S_card_suffix == <<" ","c","a","r","d">>

ProbedAmounts == {R(-1599, 100)}

\* whether the description matches the family: the test of its `if`
FamilyMatches(family, description) ==
    \/ ContainsAny(FamilyKeywords[family],
                   CollapseSpaces(BlankNonLowerAlnum(Lower(description))))
    \/ /\ family = "gas"
       /\ \/ EndsWith(Lower(description), S_gas_suffix)
          \/ Contains(Lower(description), S_fuel_infix)

\* the positions in FamilyOrder of the families the description matches
MatchedFamilies(description) ==
    {k \in 1..Len(FamilyOrder) : FamilyMatches(FamilyOrder[k], description)}

KeywordInit ==
    /\ alias_cache = EmptyCache
    /\ prev_cache = EmptyCache
    /\ phase = "idle"
    /\ request = NoRequest
    /\ response = NoResponse
    /\ fresh = NoResponse
    /\ ledger = <<>>
    /\ ledger2 = <<>>
    /\ threads = [r \in Requests |-> NewThread(<<>>)]
    /\ writes = {}
    /\ probe \in {[op |-> "categorize",
                   description |-> KeywordDescription(choice, suffix),
                   amount |-> amount,
                   matched |-> MatchedFamilies(KeywordDescription(choice, suffix)),
                   category |-> "pending"] :
                     choice \in FamilyChoices, suffix \in {<<>>, S_card_suffix},
                     amount \in ProbedAmounts}

\* engine._categorize_transaction(description, amount); the call reads the
\* alias cache and leaves it as it is
CategorizeCall ==
    /\ probe.category = "pending"
    /\ probe' = [probe EXCEPT !.category =
                     CategorizeTransaction(alias_cache, probe.description, probe.amount)]
    /\ UNCHANGED <<alias_cache, prev_cache, phase, request, response, fresh, ledger,
                   ledger2, threads, writes>>

KeywordNext == CategorizeCall

KeywordSpec == KeywordInit /\ [][KeywordNext]_vars

\* the call has returned for a description matching two or more families
CategorizedSeveral ==
    /\ probe.op = "categorize"
    /\ probe.category # "pending"
    /\ Cardinality(probe.matched) >= 2

\* C20 as stated: a negative-amount description matching two or more
\* families gets the matched family that comes first in the order income,
\* rent, mortgage, ..., bank_fee, healthcare
C20_FirstFamilyWins ==
    CategorizedSeveral => probe.category = FamilyOrder[SetMin(probe.matched)]

\* the matched families a negative amount can be given: income is passed
\* over
ExpenseFamilies(matched) == {k \in matched : FamilyOrder[k] # "income"}

\* C20: a negative-amount description matching two or more families gets
\* the matched family that comes first in the order rent, mortgage, ...,
\* bank_fee, healthcare (a match of the income family is passed over), a
\* bank_fee match being reported as credit_card_fee when the description
\* contains credit or card
C20_FirstExpenseFamilyWins ==
    CategorizedSeveral =>
        LET first == FamilyOrder[SetMin(ExpenseFamilies(probe.matched))]
        IN probe.category =
               IF /\ first = "bank_fee"
                  /\ \/ Contains(Lower(probe.description), S_credit)
                     \/ Contains(Lower(probe.description), S_card)
               THEN "credit_card_fee"
               ELSE first

\* a description with an income keyword and the keyword of a later family
\* has been given the later family
C20_Witness ==
    /\ CategorizedSeveral
    /\ 1 \in probe.matched
    /\ Cardinality(ExpenseFamilies(probe.matched)) >= 1
    /\ probe.category = FamilyOrder[SetMin(ExpenseFamilies(probe.matched))]

(***************************************************************************)
(* The reconciliation pass on its own: _apply_category_targets called on a *)
(* frame that holds the history of one category and forecast events of it  *)
(***************************************************************************)
\* how many forecast events of the category the frame holds
MaxEvents == 2

ReconciledProbes == {"groceries", "rent", "income"}

\* two payments of the category, on the first and the thirtieth day
ProbeHistory(category, amount) ==
    <<[date |-> 1, description |-> S_Grocery, amount |-> amount, category |-> category],
      [date |-> 30, description |-> S_Grocery, amount |-> amount, category |-> category]>>

\* the magnitudes of the history's payments and of the projected events;
\* the sign is the one of the category, a projected event may oppose it
HistoryMagnitudes == {30, 450, 900}

EventAmounts == {800, 450, 100, -100}

ProbeSign(category) == IF category = "income" THEN 1 ELSE -1

\* projected events of the category, a week apart from start_date on
ProbeEvents(category, start_date, amounts) ==
    [k \in 1..Len(amounts) |->
        [date |-> start_date + 7 * (k - 1),
         amount |-> RInt(ProbeSign(category) * amounts[k]),
         category |-> category,
         description |-> S_Grocery,
         type |-> "forecast",
         projection_source |-> "behavior"]]

\* the frame, the history and the window _apply_category_targets is given
ReconcileProbe(category, history_df, start_date, horizon, amounts) ==
    [op |-> "reconcile",
     category |-> category,
     history_df |-> history_df,
     start_date |-> start_date,
     horizon |-> horizon,
     combined_df |-> HistoricalRows(history_df)
                     \o ProbeEvents(category, start_date, amounts),
     done |-> FALSE,
     result |-> <<>>]

ReconcileInit ==
    /\ alias_cache = EmptyCache
    /\ prev_cache = EmptyCache
    /\ phase = "idle"
    /\ request = NoRequest
    /\ response = NoResponse
    /\ fresh = NoResponse
    /\ ledger = <<>>
    /\ ledger2 = <<>>
    /\ threads = [r \in Requests |-> NewThread(<<>>)]
    /\ writes = {}
    /\ probe \in {ReconcileProbe(category,
                                 ProbeHistory(category, RInt(ProbeSign(category) * magnitude)),
                                 31, horizon, amounts) :
                     category \in ReconciledProbes,
                     magnitude \in HistoryMagnitudes,
                     horizon \in {7, 30},
                     amounts \in UNION {[1..n -> EventAmounts] : n \in 1..MaxEvents}}

\* engine._apply_category_targets(combined_df, history_df, start_date,
\* horizon): the frame it returns
ApplyCategoryTargetsCall ==
    /\ probe.op = "reconcile"
    /\ ~ probe.done
    /\ probe' = [probe EXCEPT
                    !.done = TRUE,
                    !.result = ApplyCategoryTargets(probe.combined_df, probe.history_df,
                                                    probe.start_date, probe.horizon)]
    /\ UNCHANGED <<alias_cache, prev_cache, phase, request, response, fresh, ledger,
                   ledger2, threads, writes>>

ReconcileNext == ApplyCategoryTargetsCall

ReconcileSpec == ReconcileInit /\ [][ReconcileNext]_vars

\* the target of the probed category and the sum of its events before the
\* call
ProbeTarget == TargetTotal(probe.history_df, probe.category, probe.start_date, probe.horizon)

ProbePredicted ==
    RSum(Amounts(SelectSeq(probe.combined_df,
        LAMBDA row : ForecastMask(row, probe.start_date)
                     /\ row.category = probe.category)))

\* target / predicted, kept within max_scale
ProbeScale ==
    RMin(RDiv(ProbeTarget[1], ProbePredicted),
         reconciliation_categories[probe.category].max_scale)

\* every event the frame held is returned with its amount multiplied by
\* ProbeScale
ProbeRescaled ==
    \A i \in 1..Len(probe.combined_df) :
        ForecastMask(probe.combined_df[i], probe.start_date) =>
            probe.result[i].amount = RMul(probe.combined_df[i].amount, ProbeScale)

\* the call has returned for a category with an enforced target whose
\* events sum, on the target's side, to less than the target
BelowTarget ==
    /\ probe.op = "reconcile"
    /\ probe.done
    /\ ProbeTarget # None
    /\ RLe(reconciliation_categories[probe.category].min_abs, RAbs(ProbeTarget[1]))
    /\ RSign(ProbePredicted) * RSign(ProbeTarget[1]) > 0
    /\ RLt(RAbs(ProbePredicted), RAbs(ProbeTarget[1]))

\* C19 as stated: events of a reconciled category that sum to less than the
\* target are rescaled by target / predicted, the scale kept within
\* max_scale
C19_BoostBelowTarget == BelowTarget => ProbeRescaled

\* the events fall short of satisfied_ratio of the target
BelowSatisfiedRatio ==
    RLt(RAbs(ProbePredicted),
        RMul(RAbs(ProbeTarget[1]),
             reconciliation_categories[probe.category].satisfied_ratio))

\* C19: events of a reconciled category that sum to less than
\* satisfied_ratio of the target are rescaled by target / predicted, the
\* scale kept within max_scale; events that sum to satisfied_ratio of the
\* target or more are returned as they are
C19_BoostBelowSatisfiedRatio ==
    BelowTarget =>
        IF BelowSatisfiedRatio THEN ProbeRescaled
        ELSE \A i \in 1..Len(probe.combined_df) : probe.result[i] = probe.combined_df[i]

\* groceries events of 900 against a target of 1800 over 30 days have been
\* rescaled by 1.8
C19_Witness ==
    /\ BelowTarget
    /\ BelowSatisfiedRatio
    /\ probe.category = "groceries"
    /\ probe.horizon = 30
    /\ ProbeTarget[1] = RInt(-1800)
    /\ ProbePredicted = RInt(-900)
    /\ ProbeScale = R(18, 10)
    /\ ProbeRescaled

(***************************************************************************)
(* Scenario ledgers: run_forecast on a fresh engine with the history of    *)
(* one recurring series (a monthly rent, a monthly subscription, a         *)
(* biweekly paycheck) that ends in December 2024.  Day 0 (2024-12-31) is   *)
(* NoDate and is not used as a payment date.                               *)
(***************************************************************************)
\* the number of payments of each history
RentPayments == 24

SubscriptionPayments == 10

PaycheckPayments == 13

ScenarioEntry(date, description, amount) ==
    [date |-> date, description |-> description, amount |-> amount, category |-> "misc"]

\* rent of 2000.00 on the 1st of the month, the last on 2024-12-01
RentLedger ==
    [k \in 1..RentPayments |->
        ScenarioEntry(AdvanceMonthSameDay(DayNumber(2024, 12, 1), k - RentPayments, 1),
                      S_Rent, RInt(-2000))]

\* Netflix at 15.99 on one day of the month (clamped to the month's end),
\* the last payment in December 2024
SubscriptionLedger(day) ==
    [k \in 1..SubscriptionPayments |->
        ScenarioEntry(AdvanceMonthSameDay(DayNumber(2024, 12, 1), k - SubscriptionPayments, day),
                      S_Netflix, R(-1599, 100))]

\* a paycheck of 1500.00 every 14 days, the last on last_date
PaycheckLedger(last_date) ==
    [k \in 1..PaycheckPayments |->
        ScenarioEntry(last_date - 14 * (PaycheckPayments - k), S_Payroll, RInt(1500))]

Scenarios ==
    {[op |-> "scenario", kind |-> "rent", day |-> 1, last_date |-> DayNumber(2024, 12, 1)]}
    \cup {[op |-> "scenario", kind |-> "subscription", day |-> day,
           last_date |-> DayNumber(2024, 12, day)] : day \in {15, 30}}
    \cup {[op |-> "scenario", kind |-> "paycheck", day |-> 0, last_date |-> last_date] :
             last_date \in {DayNumber(2024, 12, 26), DayNumber(2024, 12, 28)}}

ScenarioLedger(scenario) ==
    IF scenario.kind = "rent" THEN RentLedger
    ELSE IF scenario.kind = "subscription" THEN SubscriptionLedger(scenario.day)
    ELSE PaycheckLedger(scenario.last_date)

ScenarioHorizons == {45, 60, 80, 400}

ScenarioDates == {2, 10, 16, 20, 28}

ScenarioInit ==
    /\ alias_cache = EmptyCache
    /\ prev_cache = EmptyCache
    /\ phase = "idle"
    /\ request = NoRequest
    /\ response = NoResponse
    /\ fresh = NoResponse
    /\ ledger = <<>>
    /\ ledger2 = <<>>
    /\ threads = [r \in Requests |-> NewThread(<<>>)]
    /\ writes = {}
    /\ probe \in {[scenario EXCEPT !.op = "scenario"] : scenario \in Scenarios}

\* engine.run_forecast(opening_balance, ledger, [], horizon, "recurring",
\* as_of_date) on the scenario's ledger
ScenarioCall ==
    /\ phase = "idle"
    /\ probe.op = "scenario"
    /\ \E horizon \in ScenarioHorizons, today \in ScenarioDates :
          \E run \in {RunForecast(alias_cache, opening_balance, ScenarioLedger(probe),
                                  <<>>, horizon, "recurring", today)} :
              /\ request' = [transactions |-> ScenarioLedger(probe), scheduled |-> <<>>,
                             horizon |-> horizon, method |-> "recurring", today |-> today]
              /\ response' = Response(run)
              /\ fresh' = Response(run)
              /\ alias_cache' = run.alias_cache
    /\ prev_cache' = alias_cache
    /\ phase' = "responded"
    /\ UNCHANGED <<ledger, ledger2, threads, writes, probe>>

ScenarioNext == ScenarioCall

ScenarioSpec == ScenarioInit /\ [][ScenarioNext]_vars

\* the call on the ledger of a scenario of the kind has returned
Projected(kind) == phase = "responded" /\ probe.op = "scenario" /\ probe.kind = kind

\* the forecast events of a category in the response, in date order
ForecastEvents(category) ==
    SelectSeq(response.transactions,
              LAMBDA row : row.type = "forecast" /\ row.category = category)

\* the days of the window [start_date, start_date + horizon) that fall on
\* the day of the month, clamped to the month's last day
WindowDays(day) ==
    SetToSortedSeq({d \in response.start_date..(response.start_date + request.horizon - 1) :
                       YMD(d).day = Min(day, DaysInMonth(YMD(d).year, YMD(d).month))})

\* whole years from one date to a later one
WholeYears(from, to) ==
    (YMD(to).year - YMD(from).year)
    - (IF YMD(to).month < YMD(from).month
          \/ (YMD(to).month = YMD(from).month /\ YMD(to).day < YMD(from).day)
       THEN 1 ELSE 0)

\* the dates and amounts of a sequence of events
DatedAmounts(events) ==
    [i \in 1..Len(events) |-> [date |-> events[i].date, amount |-> events[i].amount]]

\* C16: for 24 monthly rent payments of 2000.00 on the 1st, the last on
\* 2024-12-01, and a horizon of 400 days, the forecast has one rent event on
\* the 1st of every month of the window, of the last amount times 1.03 to
\* the number of whole years since the last payment, rounded to cents; the
\* events of 2026 carry 2060.00
C16_RentEscalation ==
    (Projected("rent") /\ request.horizon = 400) =>
        /\ DatedAmounts(ForecastEvents("rent")) =
               [k \in 1..Len(WindowDays(1)) |->
                   [date |-> WindowDays(1)[k],
                    amount |-> Round2(RMul(RInt(-2000),
                                       RPow(R(103, 100),
                                            WholeYears(probe.last_date, WindowDays(1)[k]))))]]
        /\ \A i \in 1..Len(ForecastEvents("rent")) :
               YMD(ForecastEvents("rent")[i].date).year = 2026 =>
                   ForecastEvents("rent")[i].amount = RInt(-2060)

\* the claim's own call: start_date 2025-01-02, thirteen events, the last
\* three of them at 2060.00
C16_Witness ==
    /\ Projected("rent")
    /\ request.horizon = 400
    /\ response.start_date = DayNumber(2025, 1, 2)
    /\ Len(request.transactions) = 24
    /\ Len(ForecastEvents("rent")) = 13
    /\ ForecastEvents("rent")[1].amount = RInt(-2000)
    /\ ForecastEvents("rent")[11].date = DayNumber(2025, 12, 1)
    /\ ForecastEvents("rent")[11].amount = RInt(-2060)
    /\ ForecastEvents("rent")[13].date = DayNumber(2026, 2, 1)

\* C17: for a monthly Netflix subscription of 15.99 the forecast has
\* exactly one subscriptions event in every month of the window whose
\* payment day (the day of the month, clamped to the month's end) lies in
\* the window, on that day, and each event carries exactly -15.99
C17_SubscriptionConstancy ==
    Projected("subscription") =>
        DatedAmounts(ForecastEvents("subscriptions")) =
            [k \in 1..Len(WindowDays(probe.day)) |->
                [date |-> WindowDays(probe.day)[k], amount |-> R(-1599, 100)]]

\* C18: for a paycheck every 14 days and a horizon of 60 days the forecast
\* has 4 or 5 income events, 14 days apart, on the modal weekday of the
\* history, the first on the first date last_date + 14k (k >= 1) on or
\* after start_date
C18_BiweeklyPaycheck ==
    (Projected("paycheck") /\ request.horizon = 60) =>
        LET events == ForecastEvents("income")
            weekday == IntMode([i \in 1..Len(request.transactions) |->
                                   Weekday(request.transactions[i].date)])
        IN /\ Len(events) \in {4, 5}
           /\ \A i \in 1..(Len(events) - 1) : events[i + 1].date = events[i].date + 14
           /\ \A i \in 1..Len(events) : Weekday(events[i].date) = weekday
           /\ events[1].date >= response.start_date
           /\ events[1].date < response.start_date + 14
           /\ events[1].date > probe.last_date
           /\ (events[1].date - probe.last_date) % 14 = 0

\* both counts occur: four events from 2025-01-02, five from 2025-01-16
C18_Witness ==
    /\ Projected("paycheck")
    /\ request.horizon = 60
    /\ Len(request.transactions) = 13
    /\ Len(ForecastEvents("income")) = 5
    /\ ForecastEvents("income")[1].date > response.start_date

(***************************************************************************)
(* run_forecast in every mode, in a process where the Prophet library is   *)
(* loaded and in one where its import failed (Prophet = None)              *)
(***************************************************************************)
\* purchases at a grocery store at uneven intervals, as (date, amount)
GroceryPool ==
    <<<<-50, -40>>, <<-47, -55>>, <<-30, -35>>, <<-28, -60>>, <<-9, -45>>,
      <<-2, -50>>, <<-1, -38>>>>

MaxPurchases == 6

GroceryLedger ==
    [k \in 1..Min(MaxPurchases, Len(GroceryPool)) |->
        ScenarioEntry(GroceryPool[k][1], S_Grocery, RInt(GroceryPool[k][2]))]

SubscriptionMonths == 4

\* the ledgers of the calls: a single expense, a single paycheck, a single
\* rent payment, one payment entered twice, the grocery purchases, and the
\* grocery purchases next to a monthly subscription
ModeLedgers ==
    [single_expense |-> <<ScenarioEntry(-2, S_Grocery, RInt(-50))>>,
     single_income |-> <<ScenarioEntry(-2, S_Payroll, RInt(1500))>>,
     single_rent |-> <<ScenarioEntry(-30, S_Rent, RInt(-2000))>>,
     entered_twice |-> <<ScenarioEntry(-2, S_Grocery, RInt(-50)),
                         ScenarioEntry(-2, S_Grocery, RInt(-50))>>,
     groceries |-> GroceryLedger,
     mixed |-> [k \in 1..SubscriptionMonths |->
                   ScenarioEntry(AdvanceMonthSameDay(DayNumber(2024, 12, 1),
                                                     k - SubscriptionMonths, 15),
                                 S_Netflix, R(-1599, 100))]
               \o GroceryLedger]

\* what a fit of the library predicts
ProphetFits ==
    {NoFit,
     [kind |-> "flat", yhat |-> RInt(-20), weekday |-> NoWeekday],
     [kind |-> "weekly", yhat |-> RInt(45), weekday |-> 5]}

\* the process: the module global Prophet, and what a fit of the library
\* predicts where it is loaded
Processes == {[Prophet |-> Prophet, fit |-> fit] : Prophet \in {"None", "library"}, fit \in ProphetFits}

\* the method argument: the modes by name, the alias of prophet, no
\* method at all and a name outside mode_map
ModeMethods ==
    {"prophet", "statistical", "None", "arima", "hybrid", "behavior", "recurring",
     "baseline"}

ModeHorizons == {7, 30}

ModeInit ==
    /\ alias_cache = EmptyCache
    /\ prev_cache = EmptyCache
    /\ phase = "idle"
    /\ request = NoRequest
    /\ response = NoResponse
    /\ fresh = NoResponse
    /\ ledger = <<>>
    /\ ledger2 = <<>>
    /\ threads = [r \in Requests |-> NewThread(<<>>)]
    /\ writes = {}
    /\ probe \in {[op |-> "mode", Prophet |-> process.Prophet, fit |-> process.fit,
                   ledger |-> name, loaded |-> NoResponse] :
                     process \in Processes, name \in DOMAIN ModeLedgers}

\* engine.run_forecast(opening_balance, ledger, [], horizon, method,
\* as_of_date) in the process, next to the same call in a process where the
\* library is loaded
ModeCall ==
    /\ phase = "idle"
    /\ probe.op = "mode"
    /\ \E horizon \in ModeHorizons, method \in ModeMethods :
          \E run \in {[Prophet \in {probe.Prophet, "library"} |->
                         RunForecastWith(Prophet, probe.fit, alias_cache, opening_balance,
                                         ModeLedgers[probe.ledger], <<>>, horizon,
                                         method, 2)]} :
              /\ request' = [transactions |-> ModeLedgers[probe.ledger],
                             scheduled |-> <<>>, horizon |-> horizon,
                             method |-> method, today |-> 2]
              /\ response' = Response(run[probe.Prophet])
              /\ fresh' = Response(run[probe.Prophet])
              /\ probe' = [probe EXCEPT !.loaded = Response(run["library"])]
              /\ alias_cache' = run[probe.Prophet].alias_cache
    /\ prev_cache' = alias_cache
    /\ phase' = "responded"
    /\ UNCHANGED <<ledger, ledger2, threads, writes>>

ModeNext == ModeCall

ModeSpec == ModeInit /\ [][ModeNext]_vars

\* a call of the mode specification has returned or raised
ModeDone == phase = "responded" /\ probe.op = "mode"

\* the rows of the response a projector put there
SourceRows(r, source) ==
    SelectSeq(r.transactions,
              LAMBDA row : row.type = "forecast" /\ row.projection_source = source)

HabitSources(r) == {r.habits[i].source : i \in 1..Len(r.habits)}

\* the methods that resolve to the prophet mode
ProphetMethods == {method \in ModeMethods : NormalizedMode(method) = "prophet"}

\* C11: without the Prophet library a call whose method resolves to prophet
\* (the default and unknown methods included) raises a RuntimeError and
\* returns no response; a hybrid call records a RuntimeWarning and returns
\* a response without prophet events whose habit insights come from the
\* recurring and behavior projectors only; behavior, recurring and baseline
\* calls return what they return with the library loaded
C11_ProphetUnavailable ==
    (ModeDone /\ probe.Prophet = "None") =>
        /\ request.method \in ProphetMethods =>
               /\ response.raised = "RuntimeError"
               /\ response.forecast = <<>>
               /\ response.transactions = <<>>
               /\ response.habits = <<>>
        /\ request.method = "hybrid" =>
               /\ response.raised = "none"
               /\ response.warnings = <<"RuntimeWarning">>
               /\ SourceRows(response, "prophet") = <<>>
               /\ HabitSources(response) \subseteq {"recurring", "behavior"}
        /\ request.method \in {"behavior", "recurring", "baseline"} =>
               /\ response.raised = "none"
               /\ response.warnings = <<>>
               /\ response = probe.loaded

\* a hybrid call without the library on a ledger for which the loaded
\* library projects trend events: the warning, and habits from both
\* remaining projectors
C11_Witness ==
    /\ ModeDone
    /\ probe.Prophet = "None"
    /\ request.method = "hybrid"
    /\ response.warnings = <<"RuntimeWarning">>
    /\ HabitSources(response) = {"recurring", "behavior"}
    /\ SourceRows(response, "behavior") # <<>>
    /\ SourceRows(probe.loaded, "prophet") # <<>>
    /\ "prophet" \in HabitSources(probe.loaded)

\* C15: when the sanitized ledger holds a single transaction and the call
\* returns, in every mode and for every horizon there is no recurring
\* template, no habit insight and no event of type forecast
C15_SingleTransaction ==
    (ModeDone /\ Len(response.ledger) = 1 /\ response.raised = "none") =>
        /\ response.templates = <<>>
        /\ response.habits = <<>>
        /\ \A i \in 1..Len(response.transactions) :
               response.transactions[i].type # "forecast"

\* a payment entered twice and kept once, forecast in hybrid mode with the
\* library loaded and fitting: the historical row alone
C15_Witness ==
    /\ ModeDone
    /\ Len(request.transactions) = 2
    /\ Len(response.ledger) = 1
    /\ request.method = "hybrid"
    /\ probe.Prophet = "library"
    /\ probe.fit.kind = "flat"
    /\ response.raised = "none"
    /\ Len(response.transactions) = 1
    /\ response.transactions[1].type = "historical"

(***************************************************************************)
(* contains_any on its own: the closure of _categorize_transaction called  *)
(* with one keyword on descriptions whose tokens hold, equal or miss it    *)
(***************************************************************************)
S_current == <<"c","u","r","r","e","n","t">>
S_Rent_comma == <<"R","e","n","t",",">>
S_gas == <<"g","a","s">>
S_vegas == <<"v","e","g","a","s">>
S_bill == <<"b","i","l","l">>
S_Gas_Bill == <<"G","a","s","-","B","i","l","l">>
S_gas_bill == <<"g","a","s"," ","b","i","l","l">>
S_rent == <<"r","e","n","t">>
S_fee == <<"f","e","e">>
S_coffee == <<"c","o","f","f","e","e">>

\* the words a probed description is made of
MatchWords == {S_current, S_Rent_comma, S_gas, S_vegas, S_bill, S_Gas_Bill, S_coffee}

\* how many words a probed description has at most
MaxWords == 2

MatchDescriptions ==
    {Join(words) : words \in UNION {[1..n -> MatchWords] : n \in 1..MaxWords}}

\* keywords of the rent, bank fee and utilities families
MatchKeywords == {S_rent, S_fee, S_gas, S_gas_bill}

\* desc_clean of _categorize_transaction
DescClean(description) ==
    CollapseSpaces(BlankNonLowerAlnum(Lower(Strip(description))))

ContainsInit ==
    /\ alias_cache = EmptyCache
    /\ prev_cache = EmptyCache
    /\ phase = "idle"
    /\ request = NoRequest
    /\ response = NoResponse
    /\ fresh = NoResponse
    /\ ledger = <<>>
    /\ ledger2 = <<>>
    /\ threads = [r \in Requests |-> NewThread(<<>>)]
    /\ writes = {}
    /\ probe \in {[op |-> "contains", description |-> description,
                   keyword |-> keyword, matched |-> FALSE,
                   category |-> "pending"] :
                     description \in MatchDescriptions, keyword \in MatchKeywords}

\* contains_any((keyword,)) inside engine._categorize_transaction(description,
\* -15.99), and the category the call returns
ContainsAnyCall ==
    /\ probe.op = "contains"
    /\ probe.category = "pending"
    /\ probe' = [probe EXCEPT
                    !.matched = ContainsAny(<<probe.keyword>>, DescClean(probe.description)),
                    !.category = CategorizeTransaction(alias_cache, probe.description,
                                                       R(-1599, 100))]
    /\ UNCHANGED <<alias_cache, prev_cache, phase, request, response, fresh, ledger,
                   ledger2, threads, writes>>

ContainsNext == ContainsAnyCall

ContainsSpec == ContainsInit /\ [][ContainsNext]_vars

ContainsDone == probe.op = "contains" /\ probe.category # "pending"

\* the keyword is one of the whitespace-separated tokens of the cleaned
\* description
IsToken(keyword, desc_clean) ==
    \E j \in 1..Len(Split(desc_clean)) : Split(desc_clean)[j] = keyword

\* C21: a one-word keyword matches exactly when it equals a token of the
\* cleaned description (a keyword inside a longer token does not match), a
\* keyword of several words exactly when it is a contiguous substring of the
\* cleaned description
C21_TokenMatch ==
    ContainsDone =>
        (probe.matched <=>
            IF Len(Split(probe.keyword)) = 1
            THEN IsToken(probe.keyword, DescClean(probe.description))
            ELSE Contains(DescClean(probe.description), probe.keyword))

\* what contains_any does: a one-word keyword matches exactly when it is a
\* substring of some token of the cleaned description
C21_SubstringMatch ==
    ContainsDone =>
        (probe.matched <=>
            IF Len(Split(probe.keyword)) = 1
            THEN \E j \in 1..Len(Split(DescClean(probe.description))) :
                     Contains(Split(DescClean(probe.description))[j], probe.keyword)
            ELSE Contains(DescClean(probe.description), probe.keyword))

\* 'current' has matched the keyword 'rent' and been categorized as rent
C21_CurrentIsRent ==
    /\ ContainsDone
    /\ probe.description = S_current
    /\ probe.keyword = S_rent
    /\ probe.matched
    /\ probe.category = "rent"

(***************************************************************************)
(* The events of a response                                                *)
(***************************************************************************)
EventTypes == {"historical", "scheduled", "forecast"}

ProjectionSources == {"recurring", "behavior", "prophet", "reconciliation"}

\* the event has one of the three types and, when it is a forecast, a
\* projection_source naming its projector
WellTyped(event) ==
    /\ event.type \in EventTypes
    /\ event.type = "forecast" => event.projection_source \in ProjectionSources

\* C22: every event of every run_forecast output, the output for no
\* transactions and no scheduled events included, has a type among
\* historical, scheduled, forecast, and every forecast event has a
\* projection_source among recurring, behavior, prophet, reconciliation
C22_EventTypes ==
    (phase = "responded" /\ response.raised = "none") =>
        \A i \in 1..Len(response.transactions) : WellTyped(response.transactions[i])

\* the same for the outputs that hold at least one historical, scheduled or
\* projected event
C22_EventTypesOfEvents ==
    (/\ phase = "responded"
     /\ response.raised = "none"
     /\ \E i \in 1..Len(response.transactions) :
            response.transactions[i].description # S_Balance_projection) =>
        \A i \in 1..Len(response.transactions) : WellTyped(response.transactions[i])

\* the call with nothing to project from has returned the single opening
\* row, a forecast event without projection_source
C22_OpeningRow ==
    /\ phase = "responded"
    /\ request.transactions = <<>>
    /\ request.scheduled = <<>>
    /\ Len(response.transactions) = 1
    /\ response.transactions[1].type = "forecast"
    /\ response.transactions[1].projection_source = "none"
    /\ response.transactions[1].description = S_Balance_projection

(***************************************************************************)
(* _sanitize_for_json on the values a response is assembled from: dicts    *)
(* with string keys, lists, timestamps of pandas, numpy and the standard   *)
(* library, numpy and native numbers, strings and None                     *)
(***************************************************************************)
\* a value that is no container: its Python type, for a float whether it is
\* finite, nan, inf or -inf, and its number, day or text
Leaf(tag, kind, num, day, text) ==
    [tag |-> tag, kind |-> kind, num |-> num, day |-> day, text |-> text]

PyNone == Leaf("None", "none", RZero, NoDate, <<>>)
PyNaT == Leaf("NaT", "none", RZero, NoDate, <<>>)
PyFloat(kind, num) == Leaf("float", kind, num, NoDate, <<>>)
PyStr(text) == Leaf("str", "none", RZero, NoDate, text)
PyInt(n) == Leaf("int", "finite", RInt(n), NoDate, <<>>)
PyDict(items) == [tag |-> "dict", items |-> items]
PyList(items) == [tag |-> "list", items |-> items]

DigitOf == <<"0", "1", "2", "3", "4", "5", "6", "7", "8", "9">>

DigitChar(d) == DigitOf[d + 1]

\* strftime('%Y-%m-%d')
IsoDate(day) ==
    LET date == YMD(day)
    IN <<DigitChar(date.year \div 1000), DigitChar((date.year \div 100) % 10),
         DigitChar((date.year \div 10) % 10), DigitChar(date.year % 10), "-",
         DigitChar(date.month \div 10), DigitChar(date.month % 10), "-",
         DigitChar(date.day \div 10), DigitChar(date.day % 10)>>

\* the branches of _sanitize_for_json below the two container branches
SanitizeLeaf(value) ==
    IF value.tag = "NaT" THEN PyNone
    ELSE IF value.tag = "Timestamp"
    THEN (IF value.day = NoDate THEN PyNone ELSE PyStr(IsoDate(value.day)))
    ELSE IF value.tag = "datetime" THEN PyStr(IsoDate(value.day))
    ELSE IF value.tag = "datetime64"
    THEN (IF value.day = NoDate THEN PyNone ELSE PyStr(IsoDate(value.day)))
    ELSE IF value.tag = "np.integer"
    THEN Leaf("int", "finite", value.num, NoDate, <<>>)
    ELSE IF value.tag = "np.floating"
    THEN (IF value.kind # "finite" THEN PyFloat("finite", RZero)
          ELSE PyFloat("finite", value.num))
    ELSE IF value.tag = "float"
    THEN (IF value.kind \in {"nan", "inf", "-inf"} THEN PyFloat("finite", RZero)
          ELSE value)
    ELSE value

RECURSIVE SanitizeForJsonShallow(_)
\* a walk that stops at the first list it meets
SanitizeForJsonShallow(value) ==
    IF value.tag = "dict"
    THEN PyDict([k \in DOMAIN value.items |-> SanitizeForJsonShallow(value.items[k])])
    ELSE IF value.tag = "list" THEN value
    ELSE SanitizeLeaf(value)

RECURSIVE SanitizeForJson(_)
\* _sanitize_for_json(value)
SanitizeForJson(value) ==
    IF value.tag = "dict"
    THEN PyDict([k \in DOMAIN value.items |-> SanitizeForJson(value.items[k])])
    ELSE IF value.tag = "list"
    THEN PyList([i \in 1..Len(value.items) |-> SanitizeForJson(value.items[i])])
    ELSE SanitizeLeaf(value)

PyTypeError == Leaf("TypeError", "none", RZero, NoDate, <<>>)

\* json.loads(json.dumps(leaf)): the encoder knows str, int, float (numpy's
\* float64 is one) and None, writes nan and the infinities as NaN, Infinity
\* and -Infinity, and raises TypeError for every other type
JsonLeaf(value) ==
    IF value.tag \in {"str", "int", "None", "float"} THEN value
    ELSE IF value.tag = "np.floating" THEN PyFloat(value.kind, value.num)
    ELSE PyTypeError

RECURSIVE JsonRoundTrip(_)
\* json.loads(json.dumps(value)) for a value whose dict keys are strings
JsonRoundTrip(value) ==
    IF value.tag = "dict"
    THEN PyDict([k \in DOMAIN value.items |-> JsonRoundTrip(value.items[k])])
    ELSE IF value.tag = "list"
    THEN PyList([i \in 1..Len(value.items) |-> JsonRoundTrip(value.items[i])])
    ELSE JsonLeaf(value)

RECURSIVE PyEqual(_, _)
\* Python's ==: a nan equals nothing, itself included; an error is no value
PyEqual(a, b) ==
    IF a.tag # b.tag THEN FALSE
    ELSE IF a.tag = "dict"
    THEN /\ DOMAIN a.items = DOMAIN b.items
         /\ \A k \in DOMAIN a.items : PyEqual(a.items[k], b.items[k])
    ELSE IF a.tag = "list"
    THEN /\ Len(a.items) = Len(b.items)
         /\ \A i \in 1..Len(a.items) : PyEqual(a.items[i], b.items[i])
    ELSE /\ a.tag # "TypeError"
         /\ a.kind # "nan"
         /\ a.kind = b.kind
         /\ a.num = b.num
         /\ a.day = b.day
         /\ a.text = b.text

RECURSIVE LeavesOf(_)
\* the values below the dicts and lists of a value, at every depth
LeavesOf(value) ==
    IF value.tag = "dict"
    THEN UNION {LeavesOf(value.items[k]) : k \in DOMAIN value.items}
    ELSE IF value.tag = "list"
    THEN UNION {LeavesOf(value.items[i]) : i \in 1..Len(value.items)}
    ELSE {value}

TimestampTags == {"NaT", "Timestamp", "datetime", "datetime64"}

\* what pandas, numpy and the float arithmetic of run_forecast put in a
\* response
ResponseFloats ==
    {PyFloat("finite", R(-1599, 100)), PyFloat("nan", RZero), PyFloat("inf", RZero),
     PyFloat("-inf", RZero),
     Leaf("np.floating", "finite", R(5, 2), NoDate, <<>>),
     Leaf("np.floating", "nan", RZero, NoDate, <<>>),
     Leaf("np.floating", "inf", RZero, NoDate, <<>>),
     Leaf("np.floating", "-inf", RZero, NoDate, <<>>)}

ResponseLeaves ==
    ResponseFloats \cup
    {PyNaT, PyNone, PyInt(7), PyStr(S_Rent),
     Leaf("Timestamp", "none", RZero, 45, <<>>),
     Leaf("Timestamp", "none", RZero, -31, <<>>),
     Leaf("datetime", "none", RZero, 10, <<>>),
     Leaf("datetime64", "none", RZero, 365, <<>>),
     Leaf("datetime64", "none", RZero, NoDate, <<>>),
     Leaf("np.integer", "finite", RInt(3), NoDate, <<>>)}

\* how many records the transactions list of a probed response holds at most
MaxRecords == 2

\* a response: a summary dict and a list of records, each a dict
ProbedResponse(minimum_balance, values) ==
    PyDict([key \in {"summary", "transactions"} |->
        IF key = "summary" THEN PyDict([k \in {"minimum_balance"} |-> minimum_balance])
        ELSE PyList([i \in 1..Len(values) |->
                        PyDict([k \in {"value"} |-> values[i]])])])

ProbedResponses ==
    {ProbedResponse(minimum_balance, values) :
        minimum_balance \in ResponseFloats,
        values \in UNION {[1..n -> ResponseLeaves] : n \in 1..MaxRecords}}

JsonInit ==
    /\ alias_cache = EmptyCache
    /\ prev_cache = EmptyCache
    /\ phase = "idle"
    /\ request = NoRequest
    /\ response = NoResponse
    /\ fresh = NoResponse
    /\ ledger = <<>>
    /\ ledger2 = <<>>
    /\ threads = [r \in Requests |-> NewThread(<<>>)]
    /\ writes = {}
    /\ probe \in {[op |-> "json", stage |-> "built", value |-> value,
                   sanitized |-> PyNone, parsed |-> PyNone] :
                     value \in ProbedResponses}

\* return self._sanitize_for_json(response)
SanitizeForJsonCall ==
    /\ probe.op = "json"
    /\ probe.stage = "built"
    /\ probe' = [probe EXCEPT !.stage = "sanitized",
                              !.sanitized = SanitizeForJson(probe.value)]
    /\ UNCHANGED <<alias_cache, prev_cache, phase, request, response, fresh, ledger,
                   ledger2, threads, writes>>

\* the caller serializes the sanitized response and a client parses it
JsonRoundTripCall ==
    /\ probe.op = "json"
    /\ probe.stage = "sanitized"
    /\ probe' = [probe EXCEPT !.stage = "parsed",
                              !.parsed = JsonRoundTrip(probe.sanitized)]
    /\ UNCHANGED <<alias_cache, prev_cache, phase, request, response, fresh, ledger,
                   ledger2, threads, writes>>

JsonNext == SanitizeForJsonCall \/ JsonRoundTripCall

JsonSpec == JsonInit /\ [][JsonNext]_vars

\* C23: the sanitized response holds, at every depth of its dicts and
\* lists, no nan or infinite number and no timestamp object; sanitizing it
\* again leaves it unchanged, and so does serializing it to JSON and parsing
\* it back
C23_SanitizedResponse ==
    /\ (probe.op = "json" /\ probe.stage # "built") =>
           /\ \A leaf \in LeavesOf(probe.sanitized) :
                  /\ leaf.tag \notin TimestampTags
                  /\ leaf.tag \in {"float", "np.floating"} => leaf.kind = "finite"
           /\ PyEqual(SanitizeForJson(probe.sanitized), probe.sanitized)
    /\ (probe.op = "json" /\ probe.stage = "parsed") =>
           PyEqual(probe.parsed, probe.sanitized)

\* a response with an infinite minimum balance, a NaT and a timestamp in its
\* records has been sanitized to 0.0, null and a date string and parsed back
C23_Witness ==
    /\ probe.op = "json"
    /\ probe.stage = "parsed"
    /\ probe.value.items["summary"].items["minimum_balance"] = PyFloat("inf", RZero)
    /\ probe.sanitized.items["summary"].items["minimum_balance"] = PyFloat("finite", RZero)
    /\ Len(probe.value.items["transactions"].items) = 2
    /\ probe.value.items["transactions"].items[1].items["value"] = PyNaT
    /\ probe.sanitized.items["transactions"].items[1].items["value"] = PyNone
    /\ probe.value.items["transactions"].items[2].items["value"].tag = "Timestamp"
    /\ probe.sanitized.items["transactions"].items[2].items["value"] =
           PyStr(<<"2", "0", "2", "5", "-", "0", "2", "-", "1", "4">>)
    /\ ~ PyEqual(JsonRoundTrip(probe.value), probe.value)

(***************************************************************************)
(* Recurrence ledgers: run_forecast (method recurring) on a fresh engine   *)
(* with the history of one payee paid at a fixed interval, the last        *)
(* payment some days before a grocery purchase of 2024-12-30 that ends the *)
(* history, with and without a scheduled event                             *)
(***************************************************************************)
S_Deposit == <<"D","e","p","o","s","i","t">>

\* 2024-12-30
HistoryEnd == DayNumber(2024, 12, 30)

Payees == {"rent", "subscription", "paycheck"}

PayeeDescription(payee) ==
    IF payee = "rent" THEN S_Rent
    ELSE IF payee = "subscription" THEN S_Netflix
    ELSE S_Payroll

PayeeAmount(payee) ==
    IF payee = "rent" THEN RInt(-2000)
    ELSE IF payee = "subscription" THEN R(-1599, 100)
    ELSE RInt(1500)

\* days between two payments
PaymentIntervals == {7, 30, 100, 200, 365}

\* how many payments a series has at most
MaxPayments == 4

\* days from the last payment to the end of the history
PaymentLags == {0, 50, 130}

Series ==
    {[op |-> "recurrence", payee |-> payee, interval |-> interval, count |-> count,
      lag |-> lag] :
        payee \in Payees, interval \in PaymentIntervals, count \in 2..MaxPayments,
        lag \in PaymentLags}

\* the payments of the series, oldest first, and the closing purchase
SeriesLedger(series) ==
    [k \in 1..series.count |->
        ScenarioEntry(HistoryEnd - series.lag - series.interval * (series.count - k),
                      PayeeDescription(series.payee), PayeeAmount(series.payee))]
    \o <<ScenarioEntry(HistoryEnd, S_Grocery, RInt(-50))>>

ScheduledItem(description, amount) ==
    [pattern |-> "weekly", amount |-> amount, description |-> description,
     weekday |-> 2, day |-> 1, date |-> NoDate]

\* no scheduled event, one with the payee's description, and ones described
\* otherwise: an expense the categorizer files under rent, a deposit, and a
\* payee it knows no keyword of, paid or received
SeriesSchedules(series) ==
    {<<>>,
     <<ScheduledItem(PayeeDescription(series.payee), PayeeAmount(series.payee))>>,
     <<ScheduledItem(S_current, RInt(-100))>>,
     <<ScheduledItem(S_Deposit, RInt(100))>>,
     <<ScheduledItem(S_Acme, RInt(100))>>,
     <<ScheduledItem(S_Acme, RInt(-100))>>}

RecurrenceHorizons == {30, 90}

\* as_of_date 2025-01-02
RecurrenceToday == DayNumber(2025, 1, 2)

RecurrenceInit ==
    /\ alias_cache = EmptyCache
    /\ prev_cache = EmptyCache
    /\ phase = "idle"
    /\ request = NoRequest
    /\ response = NoResponse
    /\ fresh = NoResponse
    /\ ledger = <<>>
    /\ ledger2 = <<>>
    /\ threads = [r \in Requests |-> NewThread(<<>>)]
    /\ writes = {}
    /\ probe \in Series

\* engine.run_forecast(opening_balance, ledger, scheduled, horizon,
\* "recurring", as_of_date) on the ledger of the series
RecurrenceCall ==
    /\ phase = "idle"
    /\ probe.op = "recurrence"
    /\ \E horizon \in RecurrenceHorizons, scheduled \in SeriesSchedules(probe) :
          \E run \in {RunForecast(alias_cache, opening_balance, SeriesLedger(probe),
                                  scheduled, horizon, "recurring", RecurrenceToday)} :
              /\ request' = [transactions |-> SeriesLedger(probe), scheduled |-> scheduled,
                             horizon |-> horizon, method |-> "recurring",
                             today |-> RecurrenceToday]
              /\ response' = Response(run)
              /\ fresh' = Response(run)
              /\ alias_cache' = run.alias_cache
    /\ prev_cache' = alias_cache
    /\ phase' = "responded"
    /\ UNCHANGED <<ledger, ledger2, threads, writes, probe>>

RecurrenceNext == RecurrenceCall

RecurrenceSpec == RecurrenceInit /\ [][RecurrenceNext]_vars

RecurrenceDone == phase = "responded" /\ probe.op = "recurrence"

\* the template was synthesized by _augment_recurring_templates
Synthesized(template) ==
    /\ Len(template.normalized_description) >= Len(S_category_prefix)
    /\ SubSeq(template.normalized_description, 1, Len(S_category_prefix)) = S_category_prefix

\* the dates of the payments a template stands for: those of its normalized
\* description, or for a synthesized template those of its category with
\* the category's sign
TemplateOccurrences(template, history_df) ==
    SetToSortedSeq(
        {history_df[i].date : i \in
            {j \in 1..Len(history_df) :
                IF Synthesized(template)
                THEN /\ history_df[j].category = template.category
                     /\ RSign(history_df[j].amount) = RSign(template.amount)
                ELSE Normalized(history_df[j].description) = template.normalized_description}})

\* the gaps in days between consecutive dates
Gaps(dates) == [i \in 1..(Len(dates) - 1) |-> dates[i + 1] - dates[i]]

\* the end of the history the templates were detected in
EndOfHistory(history_df) == SetMax({history_df[i].date : i \in 1..Len(history_df)})

\* last_date is within recurring_max_inactive_days of the history end and
\* within recurring_staleness_multiplier x the median interval of it
Fresh(template, history_df) ==
    LET inactive_days == EndOfHistory(history_df) - template.last_date
        gaps == Gaps(TemplateOccurrences(template, history_df))
    IN /\ inactive_days <= recurring_max_inactive_days
       /\ RLe(RInt(inactive_days),
              RMul(recurring_staleness_multiplier,
                   RMedian([i \in 1..Len(gaps) |-> RInt(gaps[i])])))

\* C24: every template the recurrence projector receives, detected or
\* synthesized, has last_date within recurring_max_inactive_days (120) of
\* the history end and within recurring_staleness_multiplier (1.4) x its
\* median interval of it
C24_TemplateFreshness ==
    RecurrenceDone =>
        \A k \in 1..Len(response.templates) :
            Fresh(response.templates[k], response.history_df)

\* the same for the templates _detect_recurring_transactions emits
C24_DetectedFreshness ==
    RecurrenceDone =>
        \A k \in 1..Len(response.templates) :
            ~ Synthesized(response.templates[k]) =>
                Fresh(response.templates[k], response.history_df)

\* a rent template synthesized from two payments has reached the projector
\* with a last_date 130 days before the end of the history and has been
\* projected
C24_StaleSynthesized ==
    /\ RecurrenceDone
    /\ probe.payee = "rent"
    /\ probe.count = 2
    /\ probe.lag = 130
    /\ \E k \in 1..Len(response.templates) :
          /\ Synthesized(response.templates[k])
          /\ response.templates[k].category = "rent"
          /\ EndOfHistory(response.history_df) - response.templates[k].last_date = 130
    /\ \E i \in 1..Len(response.transactions) :
          /\ response.transactions[i].type = "forecast"
          /\ response.transactions[i].projection_source = "recurring"
          /\ response.transactions[i].category = "rent"

\* a detected template with a lapse has reached the projector
C24_DetectedLapsed ==
    /\ RecurrenceDone
    /\ probe.lag = 50
    /\ \E k \in 1..Len(response.templates) : ~ Synthesized(response.templates[k])

\* the rows of the response the recurrence projector emitted for a template
TemplateRowsOf(template) ==
    SelectSeq(response.transactions,
              LAMBDA row : /\ row.type = "forecast"
                           /\ row.projection_source = "recurring"
                           /\ row.description = template.description \o S_projected)

\* the normalized descriptions of the scheduled events of the request
ScheduledNorms ==
    {Normalized(request.scheduled[k].description) : k \in
        {j \in 1..Len(request.scheduled) : request.scheduled[j].description # <<>>}}

\* the (category, sign) of the scheduled events as the response reports them
ScheduledEventSignatures ==
    {<<response.transactions[i].category, RSign(response.transactions[i].amount)>> :
        i \in {j \in 1..Len(response.transactions) :
                  response.transactions[j].type = "scheduled"}}

\* the (category, sign) _generate_recurring_events computes for the scheduled
\* events: the category of the description alone, without the amount
ScheduledDescriptionSignatures ==
    {<<CategorizeTransaction(alias_cache, request.scheduled[k].description, NoAmount),
       RSign(request.scheduled[k].amount)>> : k \in 1..Len(request.scheduled)}

TemplateSignature(template) ==
    <<template.category, IF RSign(template.amount) > 0 THEN 1 ELSE -1>>

\* the rows of the template are the dates of its cadence in the window
ProjectedInWindow(template) ==
    LET rows == TemplateRowsOf(template)
    IN [i \in 1..Len(rows) |-> rows[i].date] =
           TemplateDates(template, response.start_date,
                         response.start_date + request.horizon)

\* C25: a template emits no projected event when its normalized description
\* is the normalized description of a scheduled event or its (category,
\* sign) is the (category, sign) of a scheduled event; every other template
\* is projected on the dates of its cadence
C25_ScheduledSuppression ==
    RecurrenceDone =>
        \A k \in 1..Len(response.templates) :
            IF \/ response.templates[k].normalized_description \in ScheduledNorms
               \/ TemplateSignature(response.templates[k]) \in ScheduledEventSignatures
            THEN TemplateRowsOf(response.templates[k]) = <<>>
            ELSE ProjectedInWindow(response.templates[k])

\* the same with the category _generate_recurring_events gives a scheduled
\* event: that of its description without its amount
C25_DescriptionSuppression ==
    RecurrenceDone =>
        \A k \in 1..Len(response.templates) :
            IF \/ response.templates[k].normalized_description \in ScheduledNorms
               \/ TemplateSignature(response.templates[k]) \in ScheduledDescriptionSignatures
            THEN TemplateRowsOf(response.templates[k]) = <<>>
            ELSE ProjectedInWindow(response.templates[k])

\* a weekly paycheck template has been projected although the response
\* reports a scheduled income event
C25_IncomeNotSuppressed ==
    /\ RecurrenceDone
    /\ probe.payee = "paycheck"
    /\ request.scheduled # <<>>
    /\ request.scheduled[1].description = S_Acme
    /\ <<"income", 1>> \in ScheduledEventSignatures
    /\ \E k \in 1..Len(response.templates) :
          /\ TemplateSignature(response.templates[k]) = <<"income", 1>>
          /\ response.templates[k].pattern = "weekly"
          /\ TemplateRowsOf(response.templates[k]) # <<>>

\* templates have been suppressed by description and by (category, sign),
\* and a template has been projected beside a scheduled event
C25_Suppressed ==
    /\ RecurrenceDone
    /\ request.scheduled # <<>>
    /\ \E k \in 1..Len(response.templates) :
          /\ TemplateRowsOf(response.templates[k]) = <<>>
          /\ \/ response.templates[k].normalized_description \in ScheduledNorms
             \/ /\ response.templates[k].normalized_description \notin ScheduledNorms
                /\ TemplateSignature(response.templates[k]) \in ScheduledDescriptionSignatures

(***************************************************************************)
(* The cadence _generate_variable_spending gives a category from the       *)
(* dates of its working occurrences                                        *)
(***************************************************************************)
\* a category of each declared frequency, and one outside expense_categories
CadenceCategories == {"rent", "groceries", "other", "gifts", "income"}

\* the days between two occurrences
OccurrenceGaps == {3, 10, 11, 20, 21, 30}

MaxOccurrences == 4

\* the dates of working_df: occurrences that end on the last day of history
RECURSIVE GapSum(_, _)
GapSum(gaps, k) == IF k > Len(gaps) THEN 0 ELSE gaps[k] + GapSum(gaps, k + 1)

OccurrenceDates(gaps) == [k \in 1..(Len(gaps) + 1) |-> HistoryEnd - GapSum(gaps, k)]

GapLists == UNION {[1..n -> OccurrenceGaps] : n \in 0..(MaxOccurrences - 1)}

CadenceHorizon == 30

CadenceInit ==
    /\ alias_cache = EmptyCache
    /\ prev_cache = EmptyCache
    /\ phase = "idle"
    /\ request = NoRequest
    /\ response = NoResponse
    /\ fresh = NoResponse
    /\ ledger = <<>>
    /\ ledger2 = <<>>
    /\ threads = [r \in Requests |-> NewThread(<<>>)]
    /\ writes = {}
    /\ probe \in {[op |-> "cadence", category |-> category,
                   dates |-> OccurrenceDates(gaps), frequency_type |-> "pending",
                   projected |-> <<>>] :
                     category \in CadenceCategories, gaps \in GapLists}

\* the cadence of the category and the dates it projects from the day after
\* the history
CadenceCall ==
    /\ probe.op = "cadence"
    /\ probe.frequency_type = "pending"
    /\ probe' = [probe EXCEPT
                   !.frequency_type = FrequencyType(probe.category, probe.dates),
                   !.projected = BehaviorDates(FrequencyType(probe.category, probe.dates),
                                               probe.dates, RecurrenceToday,
                                               RecurrenceToday + CadenceHorizon)]
    /\ UNCHANGED <<alias_cache, prev_cache, phase, request, response, fresh, ledger,
                   ledger2, threads, writes>>

CadenceNext == CadenceCall

CadenceSpec == CadenceInit /\ [][CadenceNext]_vars

CadenceDone == probe.op = "cadence" /\ probe.frequency_type # "pending"

\* the cadence the median interval of the dates gives
MedianCadence(dates) ==
    IF Len(dates) < 2 THEN "weekly"
    ELSE IF RLe(RInt(21), RMedian(Intervals(dates))) THEN "monthly"
    ELSE IF RLe(RInt(11), RMedian(Intervals(dates))) THEN "biweekly"
    ELSE "weekly"

\* C26: the cadence is monthly for a median interval of 21 days or more,
\* biweekly for 11 days or more and weekly otherwise, and the only override
\* promotes a category declared monthly from weekly to monthly
C26_MedianCadence ==
    CadenceDone =>
        probe.frequency_type =
            IF /\ ExpectedFrequency(probe.category) = "monthly"
               /\ MedianCadence(probe.dates) = "weekly"
            THEN "monthly"
            ELSE MedianCadence(probe.dates)

\* C26 with the second override: a category declared weekly is weekly
\* whatever its median interval, a category declared monthly is promoted
\* from weekly to monthly, and every other category has the cadence of its
\* median interval
C26_DeclaredCadence ==
    CadenceDone =>
        probe.frequency_type =
            IF ExpectedFrequency(probe.category) = "weekly" THEN "weekly"
            ELSE IF /\ ExpectedFrequency(probe.category) = "monthly"
                    /\ MedianCadence(probe.dates) = "weekly"
            THEN "monthly"
            ELSE MedianCadence(probe.dates)

\* groceries bought every 30 days have been given the weekly cadence
C26_WeeklyDeclared ==
    /\ CadenceDone
    /\ probe.category = "groceries"
    /\ Len(probe.dates) = 3
    /\ RMedian(Intervals(probe.dates)) = RInt(30)
    /\ probe.frequency_type = "weekly"

(***************************************************************************)
(* The injections of _apply_category_targets and the warnings of           *)
(* _compute_capped_event_amount: the frame holds the history of one        *)
(* category, none or some forecast events of it, and a forecast event of   *)
(* a category outside the reconciliation table                             *)
(***************************************************************************)
S_Flight == <<"F","l","i","g","h","t">>

InjectionHorizons == {7, 30, 45}

InjectionStart == DayNumber(2025, 1, 31)

\* a forecast event of a category that is not reconciled
TravelEvent(start_date) ==
    [date |-> start_date, amount |-> RInt(-300), category |-> "travel",
     description |-> S_Flight, type |-> "forecast", projection_source |-> "behavior"]

InjectionInit ==
    /\ alias_cache = EmptyCache
    /\ prev_cache = EmptyCache
    /\ phase = "idle"
    /\ request = NoRequest
    /\ response = NoResponse
    /\ fresh = NoResponse
    /\ ledger = <<>>
    /\ ledger2 = <<>>
    /\ threads = [r \in Requests |-> NewThread(<<>>)]
    /\ writes = {}
    /\ probe \in {[op |-> "inject",
                   category |-> category,
                   history_df |-> ProbeHistory(category, RInt(ProbeSign(category) * magnitude)),
                   start_date |-> InjectionStart,
                   horizon |-> horizon,
                   combined_df |-> HistoricalRows(ProbeHistory(category,
                                       RInt(ProbeSign(category) * magnitude)))
                                   \o ProbeEvents(category, InjectionStart, amounts)
                                   \o <<TravelEvent(InjectionStart)>>,
                   done |-> FALSE,
                   result |-> <<>>,
                   warned |-> {}] :
                     category \in ReconciledProbes,
                     magnitude \in HistoryMagnitudes,
                     horizon \in InjectionHorizons,
                     amounts \in UNION {[1..n -> EventAmounts] : n \in 0..MaxEvents}}

\* engine._apply_category_targets(combined_df, history_df, start_date,
\* horizon): the frame it returns and the categories it warned about
InjectionCall ==
    /\ probe.op = "inject"
    /\ ~ probe.done
    /\ \E run \in {ReconcileTargets(probe.combined_df, probe.history_df,
                                    probe.start_date, probe.horizon)} :
          probe' = [probe EXCEPT !.done = TRUE,
                                 !.result = run.combined_df,
                                 !.warned = run.capped]
    /\ UNCHANGED <<alias_cache, prev_cache, phase, request, response, fresh, ledger,
                   ledger2, threads, writes>>

InjectionNext == InjectionCall

InjectionSpec == InjectionInit /\ [][InjectionNext]_vars

InjectionDone == probe.op = "inject" /\ probe.done

\* the rows the call injected for a category, and the forecast rows of the
\* category the projectors had put in the frame, as the call returns them
InjectedFor(category) ==
    SelectSeq(probe.result,
              LAMBDA row : /\ row.projection_source = "reconciliation"
                           /\ row.category = category)

ProjectedFor(category) ==
    SelectSeq(probe.result,
              LAMBDA row : /\ ForecastMask(row, probe.start_date)
                           /\ row.projection_source # "reconciliation"
                           /\ row.category = category)

\* what the returned events of the category leave of its target
ResidualOf(category) ==
    RSub(TargetTotal(probe.history_df, category, probe.start_date, probe.horizon)[1],
         RSum(Amounts(ProjectedFor(category))))

\* the magnitude of the category's history in the 120 days before
\* start_date
ProbeRecentAbs(category) ==
    RSum(AbsAmounts(SelectSeq(probe.history_df,
        LAMBDA row : /\ row.category = category
                     /\ row.date >= probe.start_date - 120
                     /\ row.date < probe.start_date)))

\* C27: an injection for a category is of at most max_events events, dated
\* start_date + k * interval_days within the horizon, each of residual /
\* n_events and of a magnitude of at most 2 * max(|residual|,
\* recent_total_abs), and the category is warned about exactly when an
\* event is of less than residual / n_events
C27_Injection ==
    InjectionDone =>
        \A category \in DOMAIN reconciliation_categories :
            LET rows == InjectedFor(category)
                config == reconciliation_categories[category]
                per_event == RDiv(ResidualOf(category), RInt(Len(rows)))
            IN IF rows = <<>> THEN category \notin probe.warned
               ELSE /\ Len(rows) <= config.max_events
                    /\ \A k \in 1..Len(rows) :
                          /\ rows[k].date =
                                 probe.start_date
                                 + Min((k - 1) * config.interval_days, probe.horizon - 1)
                          /\ rows[k].date < probe.start_date + probe.horizon
                          /\ rows[k].amount = per_event
                          /\ RLe(RAbs(rows[k].amount),
                                 RMul(RInt(2), RMax(RAbs(ResidualOf(category)),
                                                    ProbeRecentAbs(category))))
                          /\ (category \in probe.warned)
                                 <=> RLt(RAbs(rows[k].amount), RAbs(per_event))

\* several events have been injected next to rescaled events of the
\* category, and a baseline adjustment where the category had no event
C27_Injected ==
    /\ InjectionDone
    /\ Len(InjectedFor(probe.category)) >= 2
    /\ ProjectedFor(probe.category) # <<>>
    /\ InjectedFor(probe.category)[1].description
           = CategoryTitle(probe.category) \o S_reconciliation

C27_BaselineAdjustment ==
    /\ InjectionDone
    /\ ProjectedFor(probe.category) = <<>>
    /\ Len(InjectedFor(probe.category)) >= 2
    /\ InjectedFor(probe.category)[1].description
           = CategoryTitle(probe.category) \o S_baseline_adjustment

(***************************************************************************)
(* The alias cache over a sequence of calls on one engine                  *)
(***************************************************************************)
\* C28: in sequential use of one engine a call removes no key of the alias
\* cache and changes no cached category, and no stored category is 'other'
\* or empty
C28_WriteOnce ==
    /\ \A key \in DOMAIN prev_cache :
          /\ key \in DOMAIN alias_cache
          /\ alias_cache[key] = prev_cache[key]
    /\ \A key \in DOMAIN alias_cache :
          /\ key # <<>>
          /\ alias_cache[key] \notin {"other", ""}

\* a call has sanitized a positive entry whose normalized description was
\* cached with an expense category, next to an entry that added a key, and
\* the cached category is the one the cache held before
C28_Witness ==
    /\ phase \in {"responded", "sanitized"}
    /\ DOMAIN alias_cache # DOMAIN prev_cache
    /\ \E k \in 1..Len(request.transactions) :
          LET key == Normalized(request.transactions[k].description)
          IN /\ RSign(request.transactions[k].amount) > 0
             /\ key \in DOMAIN prev_cache
             /\ prev_cache[key] # "income"
             /\ alias_cache[key] = prev_cache[key]

(***************************************************************************)
(* The projectors of a call and the categories each of them covers         *)
(***************************************************************************)
ProjectorSources == {"recurring", "behavior", "prophet"}

\* the projectors with a forecast event of the category in the response
SourcesOf(r, category) ==
    {source \in ProjectorSources :
        \E i \in 1..Len(SourceRows(r, source)) :
            SourceRows(r, source)[i].category = category}

\* C29: in the response of every mode no category has forecast events of
\* more than one of the recurring, behavior and prophet projectors; a
\* category with a recurring template has no behavior event, and in hybrid
\* mode a category with prophet events has no behavior insight
C29_OneProjectorPerCategory ==
    (ModeDone /\ response.raised = "none") =>
        /\ \A i \in 1..Len(response.transactions) :
              Cardinality(SourcesOf(response, response.transactions[i].category)) <= 1
        /\ \A k \in 1..Len(response.templates) :
              "behavior" \notin SourcesOf(response, response.templates[k].category)
        /\ \A i \in 1..Len(response.habits) :
              (/\ request.method = "hybrid"
               /\ response.habits[i].source = "behavior")
                  => "prophet" \notin SourcesOf(response, response.habits[i].category)

\* a hybrid response with recurring events of one category and prophet
\* events of another, for a ledger whose second category the behavior
\* projector covers when the library is missing
C29_Witness ==
    /\ ModeDone
    /\ request.method = "hybrid"
    /\ probe.Prophet = "None"
    /\ response.raised = "none"
    /\ \E i \in 1..Len(response.transactions) :
          /\ SourcesOf(response, response.transactions[i].category) = {"behavior"}
          /\ SourcesOf(probe.loaded, response.transactions[i].category) = {"prophet"}
    /\ \E i \in 1..Len(probe.loaded.transactions) :
          SourcesOf(probe.loaded, probe.loaded.transactions[i].category) = {"recurring"}

(***************************************************************************)
(* The recency rule of _detect_recurring_transactions                      *)
(***************************************************************************)
\* the templates of the response _detect_recurring_transactions emitted
DetectedTemplates ==
    SelectSeq(response.templates, LAMBDA template : ~ Synthesized(template))

\* C30: _detect_recurring_transactions emits no template for a description
\* whose consecutive occurrences are all more than
\* recurring_recent_window_days (180 days) apart, however many they are:
\* every detected template, the yearly ones included, stands for a series
\* with a gap of at most 180 days
C30_RecencyRule ==
    RecurrenceDone =>
        \A k \in 1..Len(DetectedTemplates) :
            \E i \in 1..(Len(TemplateOccurrences(DetectedTemplates[k],
                                                 response.history_df)) - 1) :
                Gaps(TemplateOccurrences(DetectedTemplates[k], response.history_df))[i]
                    <= recurring_recent_window_days

\* rent paid once a year, recurring_min_yearly_occurrences times or more
\* and up to the end of the history, has been given no detected template
C30_YearlySeries ==
    /\ RecurrenceDone
    /\ probe.payee = "rent"
    /\ probe.interval = 365
    /\ probe.count >= recurring_min_yearly_occurrences
    /\ probe.lag = 0
    /\ \E i \in 1..Len(response.history_df) :
          Normalized(response.history_df[i].description) = Normalized(S_Rent)
    /\ \A k \in 1..Len(DetectedTemplates) :
          DetectedTemplates[k].normalized_description # Normalized(S_Rent)

\* a yearly template has been detected for payments 100 days apart
C30_YearlyPattern ==
    /\ RecurrenceDone
    /\ probe.interval = 100
    /\ \E k \in 1..Len(DetectedTemplates) : DetectedTemplates[k].pattern = "yearly"

====
